---- MODULE Spec2Model ----
(***************************************************************************)
(* Lead-management CRM: the data-access facade (ApiService), the revenue   *)
(* calculator of MwsRevenuePage and the backend tables they act on.        *)
(*                                                                         *)
(* The backend (tables, procedures) is external: a table is a variable, a  *)
(* single backend statement is one atomic step, and an async facade method *)
(* is a sequence of such steps that other actors may interleave with.      *)
(* Each subsystem has its own specification; a subsystem's actions leave   *)
(* the variables of the other subsystems unchanged.                        *)
(***************************************************************************)
EXTENDS Integers, Sequences, FiniteSets, TLC

VARIABLES
    \* ---- quotes table and one sendQuoteByWebhook call
    quoteStatus,    \* quotes.status of quote q, as stored by the backend
    sendPc,         \* position of the sendQuoteByWebhook(q) call
    rawQuote,       \* the status read by the call's first select (<<>>: none)
    response,       \* the webhook's HTTP response (<<>>: none yet)
    sendError,      \* the Error thrown to the caller, as message parts
    sendUpdates,    \* updateQuoteStatus calls issued by this call
    sendPosts,      \* HTTP POSTs issued by this call
    statusAtCall,   \* quotes.status when the call was made
    otherWrites,    \* writes of other actors since the call was made
    sendCalls,      \* calls made so far
    \* ---- notifications table and the sent-notification batch operations
    notifications,  \* the rows of the notifications table
    nextNotifId,    \* the id the backend gives the next inserted row
    now,            \* the backend clock: an index into NotifInstants
    sentList,       \* <<>> or <<result>>: what getSentNotifications last returned
    customSends,    \* sendCustomNotification calls so far
    updPc,          \* position of the updateSentNotification call
    updOriginal,    \* its originalNotification (<<>>: none)
    updNew,         \* its <<newTitle, newMessage>>
    updRecipients,  \* its recipientUserIds
    updDeleted,     \* the user_ids of the rows its delete statement removed
    updInserted,    \* the user_ids of the rows its insert statement added
    lastDelete,     \* <<>> or <<n>>: the notification of the last batch delete
    deleteStmts,    \* batch delete statements the backend has executed
    batchCalls,     \* update/deleteSentNotification calls so far
    \* ---- clients table and the callers of addClient / updateClient
    clients,        \* the rows of the clients table
    nextClientId,   \* the id the backend gives the next inserted client
    nextServiceId,  \* stands for Date.now() and Math.random() in generated ids
    cpc,            \* per caller: the position of its call
    cop,            \* per caller: the call it is making (<<>>: none)
    cloc,           \* per caller: updatesForSupabase.services once computed
    cres,           \* per caller: <<>>, <<"ok", client>> or <<"error", message>>
    settled,        \* per client id: <<>> or the <<f, p>> last set together
    clientCalls,    \* calls made so far
    \* ---- the revenue calculator of one client (ClientRevenueCalculator)
    revClient,      \* the client prop: leads, adSpends and commission settings
    dateRange,      \* the dateRange prop: start and end, each optional
    revenueData,    \* the memoised result for revClient and dateRange
    \* ---- the revenue page (MwsRevenuePage)
    selectedMonth,  \* the month input, "YYYY-MM"
    userRole,       \* the role of the signed-in user
    currentMonth,   \* the month of today's date, "YYYY-MM"
    isReadOnly,     \* the memoised isReadOnly
    backendClient,  \* the client with its leads and ad spends in the backend
    revenueTable,   \* the rows of mws_monthly_revenue, in the order of their insertion
    allClients,     \* the page's copy of the clients
    mwsRevenues,    \* the page's copy of the rows
    fetchPending,   \* fetchData calls that have not completed
    pendingSave,    \* the upsert a revenue save has issued, if any
    saveSeen,       \* the client a revenue save computed from, until the next fetch
    paymentModalData,   \* what the payment dialog was opened with, if anything
    isPaymentModalOpen,
    isPaidInFull,   \* the dialog's check box
    modalAmount,    \* the dialog's amount field, a string
    modalError,     \* the dialog's error message
    pendingPayment, \* the upsert a confirmed payment has issued, if any
    lastConfirm,    \* set by a confirmation of the dialog: what it saw and what it did
    pageSteps,      \* saves, payments and backend changes so far
    \* ---- profiles, clients, leads and the calls of addLead and deleteClient
    profiles,       \* the rows of the profiles table: id and role
    logins,         \* the ids of the user accounts that exist
    clientRows,     \* the rows of the clients table: id, user_id and name
    leadRows,       \* the rows of the leads table: id and client_id
    leadNotifs,     \* the notification rows that are linked to a lead
    nextLeadId,     \* the id the backend gives the next inserted lead
    addPc,          \* position of the addLead call
    addClientId,    \* its clientId
    newLead,        \* the lead its insert returned (<<>>: none)
    leadClientData, \* clientData: the row its client select returned, or null
    adminUsers,     \* the ids its profiles select returned, or null
    notifInsert,    \* what became of its notification insert
    addResult,      \* <<>>, <<"ok", lead>> or <<"error">>: what the call gave its caller
    leadCalls,      \* addLead calls so far
    delPc,          \* position of the deleteClient call
    delClientId,    \* its clientId
    delClient,      \* client: the row its select returned
    rpcCalls,       \* procedure calls it has issued, with their argument
    delResult,      \* <<>>, <<"ok">> or <<"error", which>>
    deleteCalls,    \* deleteClient calls so far
    \* ---- the auth holder (AuthProvider) and the auth service
    profileRow,     \* the profile of the user in the backend: <<>> or <<status>>
    authSession,    \* whether the auth service holds a session of the user
    authEvents,     \* sessions passed to onAuthStateChange, not yet handled
    session,        \* the session state (<<>>: null)
    user,           \* the user state (<<>>: null)
    isLoading,
    initPc,         \* position of getInitialSession
    loginPc,        \* position of the login call
    loginResult,    \* <<>> or the error login resolved with, as <<message>> or <<"null">>
    fetchPc,        \* per fetchAndSetUserProfile call: its position
    fetchProfile,   \* per call: the profile it read, <<>> or <<status>>
    fetchOutcome,   \* per call: how it ended
    fetchQueries,   \* per call: the profile selects it has issued
    authLogins,     \* login calls so far
    statusChanges,  \* changes of the profile's status by an admin so far
    \* ---- one call of a read operation of the facade
    readOp,         \* the operation called ("": none)
    readAnswers,    \* what the backend answers to the selects the operation may issue
    readResult      \* <<>>, <<"throw", message>> or <<"return", value>>

quoteVars == <<quoteStatus, sendPc, rawQuote, response, sendError, sendUpdates,
               sendPosts, statusAtCall, otherWrites, sendCalls>>

notifVars == <<notifications, nextNotifId, now, sentList, customSends,
               updPc, updOriginal, updNew, updRecipients, updDeleted, updInserted,
               lastDelete, deleteStmts, batchCalls>>

clientVars == <<clients, nextClientId, nextServiceId, cpc, cop, cloc, cres, settled,
                clientCalls>>

revVars == <<revClient, dateRange, revenueData>>

monthVars == <<selectedMonth>>
dialogVars == <<paymentModalData, isPaymentModalOpen, isPaidInFull, modalAmount, modalError, pendingPayment,
      lastConfirm>>
pageVars ==
    <<monthVars, userRole, currentMonth, isReadOnly, backendClient, revenueTable, allClients,
      mwsRevenues, fetchPending, pendingSave, saveSeen, dialogVars, pageSteps>>

leadVars == <<profiles, logins, clientRows, leadRows, leadNotifs, nextLeadId,
              addPc, addClientId, newLead, leadClientData, adminUsers, notifInsert, addResult,
              leadCalls, delPc, delClientId, delClient, rpcCalls, delResult, deleteCalls>>

authVars == <<profileRow, authSession, authEvents, session, user, isLoading, initPc,
              loginPc, loginResult, fetchPc, fetchProfile, fetchOutcome, fetchQueries,
              authLogins, statusChanges>>

readVars == <<readOp, readAnswers, readResult>>

vars == <<quoteVars, notifVars, clientVars, revVars, pageVars, leadVars, authVars, readVars>>

\* What the actions of one subsystem leave unchanged: the other subsystems.
QuoteFrame == UNCHANGED <<notifVars, clientVars, revVars, pageVars, leadVars, authVars, readVars>>
NotifFrame == UNCHANGED <<quoteVars, clientVars, revVars, pageVars, leadVars, authVars, readVars>>
ClientFrame == UNCHANGED <<quoteVars, notifVars, revVars, pageVars, leadVars, authVars, readVars>>
RevFrame == UNCHANGED <<quoteVars, notifVars, clientVars, pageVars, leadVars, authVars, readVars>>
MonthFrame ==
    UNCHANGED <<quoteVars, notifVars, clientVars, userRole, currentMonth, isReadOnly,
                backendClient, revenueTable, allClients, mwsRevenues, fetchPending,
                pendingSave, saveSeen, dialogVars, pageSteps, leadVars, authVars, readVars>>
PageFrame == UNCHANGED <<quoteVars, notifVars, clientVars, revVars, leadVars, authVars, readVars>>
LeadFrame == UNCHANGED <<quoteVars, notifVars, clientVars, revVars, pageVars, authVars, readVars>>
AuthFrame ==
    UNCHANGED <<quoteVars, notifVars, clientVars, revVars, pageVars, leadVars, readVars>>
ReadFrame ==
    UNCHANGED <<quoteVars, notifVars, clientVars, revVars, pageVars, leadVars, authVars>>

(***************************************************************************)
(* Bounds                                                                  *)
(***************************************************************************)
MaxSends == 2
MaxOtherWrites == 2
MaxCustomSends == 2
MaxBatchCalls == 1
MaxClientCalls == 3
MaxLeads == 2
MaxAdSpends == 1
MaxMonthLeads == 2
MaxMonthAdSpends == 1
MaxPageSteps == 3
MaxLeadCalls == 2
MaxDeleteCalls == 1
MaxAuthLogins == 1
MaxStatusChanges == 1

(***************************************************************************)
(* Quotes: updateQuoteStatus and sendQuoteByWebhook                        *)
(***************************************************************************)
QuoteStatuses == {"draft", "sent", "accepted", "rejected"}

\* Status codes a webhook may answer with, and response bodies.
HttpStatuses == {200, 204, 404, 500}
HttpBodies == {"", "boom"}

\* fetch's Response.ok: the status is in the range 200-299.
ResponseOk(r) == r.status >= 200 /\ r.status <= 299

\* The message of the Error thrown for a non-2xx answer.
WebhookErrorMessage(status, errorText) ==
    <<"Il server webhook ha risposto con un errore: ", ToString(status), " - ", errorText>>

\* updateQuoteStatus(q, status) by another actor: one backend update.
UpdateQuoteStatus(status) ==
    /\ QuoteFrame
    /\ otherWrites < MaxOtherWrites
    /\ quoteStatus' = status
    /\ otherWrites' = otherWrites + 1
    /\ UNCHANGED <<sendPc, rawQuote, response, sendError, sendUpdates, sendPosts,
                   statusAtCall, sendCalls>>

OtherUpdateQuoteStatus == \E status \in QuoteStatuses : UpdateQuoteStatus(status)

\* The caller invokes sendQuoteByWebhook(q).
SendCall ==
    /\ QuoteFrame
    /\ sendPc = "idle"
    /\ sendCalls < MaxSends
    /\ sendPc' = "called"
    /\ sendCalls' = sendCalls + 1
    /\ statusAtCall' = quoteStatus
    /\ otherWrites' = 0
    /\ rawQuote' = <<>>
    /\ response' = <<>>
    /\ sendError' = <<>>
    /\ sendUpdates' = 0
    /\ sendPosts' = 0
    /\ UNCHANGED quoteStatus

SendFail(message) ==
    /\ sendPc' = "failed"
    /\ sendError' = message

\* select * from quotes where id = q (single).
SendReadQuote ==
    /\ QuoteFrame
    /\ sendPc = "called"
    /\ \/ /\ SendFail(<<"quoteError.message">>)
          /\ UNCHANGED rawQuote
       \/ /\ rawQuote' = <<quoteStatus>>
          /\ sendPc' = "quote_read"
          /\ UNCHANGED sendError
    /\ UNCHANGED <<quoteStatus, response, sendUpdates, sendPosts, statusAtCall,
                   otherWrites, sendCalls>>

\* getLeadById(rawQuote.lead_id): null on a backend error.
SendReadLead ==
    /\ QuoteFrame
    /\ sendPc = "quote_read"
    /\ \/ SendFail(<<"Impossibile trovare il lead associato al preventivo.">>)
       \/ /\ sendPc' = "lead_read"
          /\ UNCHANGED sendError
    /\ UNCHANGED <<quoteStatus, rawQuote, response, sendUpdates, sendPosts,
                   statusAtCall, otherWrites, sendCalls>>

\* A send that marks the quote 'sent' before it reads the client's webhook URL.
SendReadClientMarkingSent ==
    /\ QuoteFrame
    /\ sendPc = "lead_read"
    /\ quoteStatus' = "sent"
    /\ sendUpdates' = sendUpdates + 1
    /\ \/ SendFail(<<"URL webhook non configurato per questo cliente.">>)
       \/ /\ sendPc' = "client_read"
          /\ UNCHANGED sendError
    /\ UNCHANGED <<rawQuote, response, sendPosts, statusAtCall, otherWrites, sendCalls>>

\* select quote_webhook_url from clients: an error, no row or no URL throws.
SendReadClient ==
    /\ QuoteFrame
    /\ sendPc = "lead_read"
    /\ \/ SendFail(<<"URL webhook non configurato per questo cliente.">>)
       \/ /\ sendPc' = "client_read"
          /\ UNCHANGED sendError
    /\ UNCHANGED <<quoteStatus, rawQuote, response, sendUpdates, sendPosts,
                   statusAtCall, otherWrites, sendCalls>>

\* fetch(url, {method: 'POST', ...}): the webhook answers with some status.
SendPost ==
    /\ QuoteFrame
    /\ sendPc = "client_read"
    /\ \E status \in HttpStatuses, text \in HttpBodies :
          response' = <<[status |-> status, text |-> text]>>
    /\ sendPosts' = sendPosts + 1
    /\ sendPc' = "responded"
    /\ UNCHANGED <<quoteStatus, rawQuote, sendError, sendUpdates, statusAtCall,
                   otherWrites, sendCalls>>

\* A send that marks the quote 'sent' before it looks at response.ok.
SendCheckResponseMarksSentFirst ==
    /\ QuoteFrame
    /\ sendPc = "responded"
    /\ quoteStatus' = "sent"
    /\ sendUpdates' = sendUpdates + 1
    /\ IF ~ResponseOk(response[1])
       THEN SendFail(WebhookErrorMessage(response[1].status, response[1].text))
       ELSE /\ sendPc' = "done"
            /\ UNCHANGED sendError
    /\ UNCHANGED <<rawQuote, response, sendPosts, statusAtCall, otherWrites, sendCalls>>

\* if (!response.ok) throw ...; if (quote.status !== 'accepted') updateQuoteStatus.
SendCheckResponse ==
    /\ QuoteFrame
    /\ sendPc = "responded"
    /\ IF ~ResponseOk(response[1])
       THEN SendFail(WebhookErrorMessage(response[1].status, response[1].text))
       ELSE /\ sendPc' = IF rawQuote[1] # "accepted" THEN "updating" ELSE "done"
            /\ UNCHANGED sendError
    /\ UNCHANGED <<quoteStatus, rawQuote, response, sendUpdates, sendPosts,
                   statusAtCall, otherWrites, sendCalls>>

\* await this.updateQuoteStatus(quoteId, 'sent'): the update or its error.
SendUpdateStatus ==
    /\ QuoteFrame
    /\ sendPc = "updating"
    /\ sendUpdates' = sendUpdates + 1
    /\ \/ /\ quoteStatus' = "sent"
          /\ sendPc' = "done"
          /\ UNCHANGED sendError
       \/ /\ SendFail(<<"Failed to update quote status: ", "error.message">>)
          /\ UNCHANGED quoteStatus
    /\ UNCHANGED <<rawQuote, response, sendPosts, statusAtCall, otherWrites, sendCalls>>

\* The promise settles and the caller may call again.
SendReturn ==
    /\ QuoteFrame
    /\ sendPc \in {"done", "failed"}
    /\ sendPc' = "idle"
    /\ UNCHANGED <<quoteStatus, rawQuote, response, sendError, sendUpdates, sendPosts,
                   statusAtCall, otherWrites, sendCalls>>

QuoteInit ==
    /\ quoteStatus \in QuoteStatuses
    /\ sendPc = "idle"
    /\ rawQuote = <<>>
    /\ response = <<>>
    /\ sendError = <<>>
    /\ sendUpdates = 0
    /\ sendPosts = 0
    /\ statusAtCall = quoteStatus
    /\ otherWrites = 0
    /\ sendCalls = 0

\* The quotes subsystem at rest, for the specifications of the other subsystems.
QuoteRest ==
    /\ quoteStatus = "draft"
    /\ sendPc = "idle"
    /\ rawQuote = <<>>
    /\ response = <<>>
    /\ sendError = <<>>
    /\ sendUpdates = 0
    /\ sendPosts = 0
    /\ statusAtCall = "draft"
    /\ otherWrites = 0
    /\ sendCalls = 0

QuoteNext ==
    \/ SendCall
    \/ SendReadQuote
    \/ SendReadLead
    \/ SendReadClient
    \/ SendPost
    \/ SendCheckResponse
    \/ SendUpdateStatus
    \/ SendReturn
    \/ OtherUpdateQuoteStatus

(***************************************************************************)
(* Notifications: sendCustomNotification, getSentNotifications,            *)
(* updateSentNotification, deleteSentNotification                          *)
(***************************************************************************)
Users == {"u1", "u2"}

\* SQL NULL in a text or reference column; no text of the model equals it.
Null == "NULL"

\* Texts an admin may type. "|" is the character getSentNotifications joins
\* the parts of its group key with.
CustomTexts == {<<"a", "b|c">>, <<"a|b ", "c">>, <<" ", "c">>}
NewTexts == {<<"a", "b|c">>, <<" z ", "c ">>}
LeadTitle == "a"
LeadMessage == "b|c"

\* created_at is set by the backend (now()) as a timestamptz, whose resolution
\* is the microsecond. Instants of the backend clock, in microseconds since
\* 1970-01-01T00:00:00Z: 00:00:59.999000, 00:00:59.999500, 00:01:00.000000.
NotifInstants == <<59999000, 59999500, 60000000>>

\* String.prototype.trim, for the blanks of the model's texts.
RECURSIVE TrimStart(_)
TrimStart(s) ==
    IF Len(s) > 0 /\ SubSeq(s, 1, 1) = " " THEN TrimStart(SubSeq(s, 2, Len(s))) ELSE s

RECURSIVE TrimEnd(_)
TrimEnd(s) ==
    IF Len(s) > 0 /\ SubSeq(s, Len(s), Len(s)) = " "
    THEN TrimEnd(SubSeq(s, 1, Len(s) - 1))
    ELSE s

Trim(s) == TrimEnd(TrimStart(s))

\* new Date(created_at).getTime(): milliseconds, the microseconds dropped.
DateOf(created_at) == created_at \div 1000

\* date.toISOString() read back by the backend as a timestamptz (microseconds).
ToISOString(ms) == ms * 1000

\* setUTCSeconds(0, 0) and setUTCSeconds(59, 999) on a copy of the date.
StartTime(ms) == ms - (ms % 60000)
EndTime(ms) == ms - (ms % 60000) + 59999

\* getUTCFullYear-getUTCMonth-getUTCDate-getUTCHours-getUTCMinutes; the
\* calendar part is that of January 1970, where the model's instants lie.
TimeKey(ms) ==
    ToString(1970) \o "-" \o ToString(0) \o "-" \o ToString(1 + (ms \div 86400000))
        \o "-" \o ToString((ms \div 3600000) % 24) \o "-" \o ToString((ms \div 60000) % 60)

\* `${title}|${message}|${timeKey}`
GroupKey(n) == n.title \o "|" \o n.message \o "|" \o TimeKey(DateOf(n.created_at))

\* .is('lead_id', null).not('title', 'is', null)
SentFilter(rows) == {r \in rows : r.lead_id = Null /\ r.title # Null}

\* .order('created_at', {ascending: false}); rows of one statement share their
\* created_at, and the backend's order among them is taken to be by id.
Precedes(r, o) ==
    r.created_at > o.created_at \/ (r.created_at = o.created_at /\ r.id <= o.id)

\* The Map keeps, for each key, the first row of the ordered data.
GroupRows(data) ==
    {r \in data : \A o \in data : GroupKey(o) = GroupKey(r) => Precedes(r, o)}

\* .is('lead_id', null).eq('title', t).eq('message', m).gte(...).lte(...)
BatchFilter(rows, n) ==
    {r \in rows :
        /\ r.lead_id = Null
        /\ r.title = n.title
        /\ r.message = n.message
        /\ r.created_at >= ToISOString(StartTime(DateOf(n.created_at)))
        /\ r.created_at <= ToISOString(EndTime(DateOf(n.created_at)))}

\* The rows an insert statement adds: one per user, ids in sequence.
NewRow(id, userId, title, message, leadId) ==
    [id |-> id, user_id |-> userId, title |-> title, message |-> message,
     lead_id |-> leadId, read |-> FALSE, created_at |-> NotifInstants[now]]

RECURSIVE InsertRows(_, _, _, _, _)
InsertRows(id, userIds, title, message, leadId) ==
    IF userIds = {} THEN {}
    ELSE LET u == CHOOSE x \in userIds : TRUE
         IN {NewRow(id, u, title, message, leadId)}
                \cup InsertRows(id + 1, userIds \ {u}, title, message, leadId)

\* The backend clock moves on.
Tick ==
    /\ NotifFrame
    /\ now < Len(NotifInstants)
    /\ now' = now + 1
    /\ UNCHANGED <<notifications, nextNotifId, sentList, customSends,
                   updPc, updOriginal, updNew, updRecipients, updDeleted, updInserted,
                   lastDelete, deleteStmts, batchCalls>>

\* sendCustomNotification(userIds, title, message)
SendCustomNotification ==
    /\ NotifFrame
    /\ customSends < MaxCustomSends
    /\ customSends' = customSends + 1
    /\ \E userIds \in SUBSET Users, text \in CustomTexts :
          LET title == text[1]
              message == text[2]
          IN IF userIds = {} \/ Trim(message) = "" \/ Trim(title) = ""
             THEN \* throw new Error("User IDs, title, and message are required.")
                  UNCHANGED <<notifications, nextNotifId>>
             ELSE \/ /\ notifications' = notifications \cup
                           InsertRows(nextNotifId, userIds, Trim(title), Trim(message), Null)
                     /\ nextNotifId' = nextNotifId + Cardinality(userIds)
                  \/ \* throw new Error(error.message)
                     UNCHANGED <<notifications, nextNotifId>>
    /\ UNCHANGED <<now, sentList, updPc, updOriginal, updNew, updRecipients, updDeleted,
                   updInserted, lastDelete, deleteStmts, batchCalls>>

\* addLead's notification for the client's user: a row linked to the lead.
InsertLeadNotification ==
    /\ NotifFrame
    /\ \A r \in notifications : r.lead_id = Null
    /\ \E u \in Users :
          notifications' = notifications \cup
              InsertRows(nextNotifId, {u}, LeadTitle, LeadMessage, "lead1")
    /\ nextNotifId' = nextNotifId + 1
    /\ UNCHANGED <<now, sentList, customSends, updPc, updOriginal, updNew,
                   updRecipients, updDeleted, updInserted, lastDelete, deleteStmts, batchCalls>>

\* getSentNotifications(): the select, then the grouping.
GetSentNotifications ==
    /\ NotifFrame
    /\ sentList' = <<GroupRows(SentFilter(notifications))>>
    /\ sentList' # sentList
    /\ UNCHANGED <<notifications, nextNotifId, now, customSends, updPc,
                   updOriginal, updNew, updRecipients, updDeleted, updInserted,
                   lastDelete, deleteStmts, batchCalls>>

\* The notifications the page lists, from which the admin picks one.
Listed == IF sentList = <<>> THEN {} ELSE sentList[1]

\* deleteSentNotification(n): one delete statement, or its error.
DeleteSentNotification ==
    /\ NotifFrame
    /\ updPc = "idle"
    /\ batchCalls < MaxBatchCalls
    /\ batchCalls' = batchCalls + 1
    /\ \E n \in Listed :
          \/ /\ notifications' = notifications \ BatchFilter(notifications, n)
             /\ lastDelete' = <<n>>
             /\ deleteStmts' = deleteStmts + 1
          \/ UNCHANGED <<notifications, lastDelete, deleteStmts>>
    /\ UNCHANGED <<nextNotifId, now, sentList, customSends, updPc,
                   updOriginal, updNew, updRecipients, updDeleted, updInserted>>

\* updateSentNotification(n, newTitle, newMessage) is called.
UpdCall ==
    /\ NotifFrame
    /\ updPc = "idle"
    /\ batchCalls < MaxBatchCalls
    /\ batchCalls' = batchCalls + 1
    /\ \E n \in Listed, new \in NewTexts :
          /\ updOriginal' = <<n>>
          /\ updNew' = new
    /\ updPc' = "called"
    /\ updRecipients' = {}
    /\ updDeleted' = {}
    /\ updInserted' = {}
    /\ UNCHANGED <<notifications, nextNotifId, now, sentList, customSends,
                   lastDelete, deleteStmts>>

\* The select of the batch's user_id; an empty batch returns early.
UpdSelect ==
    /\ NotifFrame
    /\ updPc = "called"
    /\ \/ updPc' = "failed" /\ UNCHANGED updRecipients
       \/ LET originalBatch == BatchFilter(notifications, updOriginal[1])
          IN /\ updRecipients' = {r.user_id : r \in originalBatch}
             /\ updPc' = IF originalBatch = {} THEN "done" ELSE "selected"
    /\ UNCHANGED <<notifications, nextNotifId, now, sentList, customSends,
                   updOriginal, updNew, updDeleted, updInserted, lastDelete, deleteStmts, batchCalls>>

\* The delete statement, with the same filter.
UpdDelete ==
    /\ NotifFrame
    /\ updPc = "selected"
    /\ \/ /\ updPc' = "failed"
          /\ UNCHANGED <<notifications, updDeleted, lastDelete, deleteStmts>>
       \/ /\ updDeleted' = {r.user_id : r \in BatchFilter(notifications, updOriginal[1])}
          /\ notifications' = notifications \ BatchFilter(notifications, updOriginal[1])
          /\ lastDelete' = <<updOriginal[1]>>
          /\ deleteStmts' = deleteStmts + 1
          /\ updPc' = "deleted"
    /\ UNCHANGED <<nextNotifId, now, sentList, customSends, updOriginal,
                   updNew, updRecipients, updInserted, batchCalls>>

\* The insert of one unread row per recipient, with the new texts trimmed.
UpdInsert ==
    /\ NotifFrame
    /\ updPc = "deleted"
    /\ \/ /\ updPc' = "failed"
          /\ UNCHANGED <<notifications, nextNotifId, updInserted>>
       \/ LET notificationsToInsert ==
                  InsertRows(nextNotifId, updRecipients, Trim(updNew[1]), Trim(updNew[2]), Null)
          IN /\ notifications' = notifications \cup notificationsToInsert
             /\ updInserted' = {r.user_id : r \in notificationsToInsert}
             /\ nextNotifId' = nextNotifId + Cardinality(updRecipients)
             /\ updPc' = "done"
    /\ UNCHANGED <<now, sentList, customSends, updOriginal, updNew,
                   updRecipients, updDeleted, lastDelete, deleteStmts, batchCalls>>

\* The promise settles.
UpdReturn ==
    /\ NotifFrame
    /\ updPc \in {"done", "failed"}
    /\ updPc' = "idle"
    /\ UNCHANGED <<notifications, nextNotifId, now, sentList, customSends,
                   updOriginal, updNew, updRecipients, updDeleted, updInserted,
                   lastDelete, deleteStmts, batchCalls>>

\* A row written without a title by an earlier version of the application.
LegacyRow ==
    [id |-> 0, user_id |-> "u1", title |-> Null, message |-> "c", lead_id |-> Null,
     read |-> TRUE, created_at |-> NotifInstants[1]]

NotifIdle ==
    /\ nextNotifId = 1
    /\ now = 1
    /\ sentList = <<>>
    /\ customSends = 0
    /\ updPc = "idle"
    /\ updOriginal = <<>>
    /\ updNew = <<>>
    /\ updRecipients = {}
    /\ updDeleted = {}
    /\ updInserted = {}
    /\ lastDelete = <<>>
    /\ deleteStmts = 0
    /\ batchCalls = 0

NotifInit ==
    /\ notifications \in {{}, {LegacyRow}}
    /\ NotifIdle

NotifRest ==
    /\ notifications = {}
    /\ NotifIdle

NotifNext ==
    \/ Tick
    \/ SendCustomNotification
    \/ InsertLeadNotification
    \/ GetSentNotifications
    \/ DeleteSentNotification
    \/ UpdCall
    \/ UpdSelect
    \/ UpdDelete
    \/ UpdInsert
    \/ UpdReturn

(***************************************************************************)
(* Clients: unpackMwsSettings, getClients, getClientByUserId, addClient,   *)
(* updateClient                                                            *)
(***************************************************************************)
\* Callers of the facade: the sequential specification has one, the
\* concurrent one has two (two admin sessions).
Procs == {1, 2}

\* An optional value: <<>> is undefined, <<v>> is v.
Undefined == <<>>
Some(v) == <<v>>

\* An entry of a services array; fee and pct are the mws_fixed_fee and
\* mws_profit_percentage properties, which only the pseudo-service carries.
\* The fields of a service play no part in what is modelled here.
Service(id, name) == [id |-> id, name |-> name, fee |-> Undefined, pct |-> Undefined]
MwsEntry(fee, pct) == [id |-> "mws_settings", name |-> "_mws_settings", fee |-> fee, pct |-> pct]
\* A null entry of a stored array.
NullEntry == [id |-> Null, name |-> Null, fee |-> Undefined, pct |-> Undefined]

\* What the services column may hold: an array, a string holding the JSON of
\* an array, a string that is no JSON, or null.
ArrayOf(items) == [kind |-> "array", items |-> items]
JsonStringOf(items) == [kind |-> "string", items |-> items]
BadString == [kind |-> "badstring", items |-> <<>>]
NullServices == [kind |-> "null", items |-> <<>>]

\* typeof raw === 'string' ? JSON.parse(raw) (or [] when it throws) : raw,
\* then Array.isArray(...) ? ... : [].
ServicesArray(raw) == IF raw.kind \in {"array", "string"} THEN raw.items ELSE <<>>

IsMws(s) == s # NullEntry /\ s.id = "mws_settings"
IsUserService(s) == s # NullEntry /\ s.id # "mws_settings"

\* servicesArray.find(s => s && s.id === 'mws_settings'): <<>> or <<entry>>.
FindMws(items) ==
    LET idx == {i \in DOMAIN items : IsMws(items[i])}
    IN IF idx = {} THEN <<>>
       ELSE <<items[CHOOSE i \in idx : \A j \in idx : i <= j]>>

\* unpackMwsSettings without its filter: the array is handed on as stored.
UnpackKeepingSentinel(clientData) ==
    LET servicesArray == ServicesArray(clientData.services)
        mwsSettings == FindMws(servicesArray)
    IN [id |-> clientData.id, user_id |-> clientData.user_id, name |-> clientData.name,
        quote_webhook_url |-> clientData.quote_webhook_url,
        mws_fixed_fee |-> IF mwsSettings # <<>> THEN mwsSettings[1].fee ELSE Undefined,
        mws_profit_percentage |-> IF mwsSettings # <<>> THEN mwsSettings[1].pct ELSE Undefined,
        services |-> servicesArray]

\* unpackMwsSettings(clientData)
UnpackMwsSettings(clientData) ==
    LET servicesArray == ServicesArray(clientData.services)
        mwsSettings == FindMws(servicesArray)
    IN [id |-> clientData.id, user_id |-> clientData.user_id, name |-> clientData.name,
        quote_webhook_url |-> clientData.quote_webhook_url,
        mws_fixed_fee |-> IF mwsSettings # <<>> THEN mwsSettings[1].fee ELSE Undefined,
        mws_profit_percentage |-> IF mwsSettings # <<>> THEN mwsSettings[1].pct ELSE Undefined,
        services |-> SelectSeq(servicesArray, IsUserService)]

\* getClients(): every row unpacked (its leads and ad spends are fetched too).
GetClients == {UnpackMwsSettings(c) : c \in clients}

\* getClientByUserId(userId): null, or the first row found, unpacked.
GetClientByUserId(userId) ==
    LET found == {c \in clients : c.user_id = userId}
    IN IF found = {} THEN {}
       ELSE {UnpackMwsSettings(CHOOSE c \in found : \A o \in found : c.id <= o.id)}

\* s.id.startsWith('new_')
StartsWithNew(id) == Len(id) >= 4 /\ SubSeq(id, 1, 4) = "new_"

\* `service_${Date.now()}_${Math.random()}`
FreshServiceId(n) == "service_" \o ToString(n)

\* The id mapping of updateClient over the array to write: an id is kept unless
\* it is missing or starts with 'new_', and then a fresh one is generated.
RECURSIVE WithIds(_, _)
WithIds(items, n) ==
    IF items = <<>> THEN <<>>
    ELSE LET s == Head(items)
             keep == s.id # Null /\ s.id # "" /\ ~StartsWithNew(s.id)
         IN <<[s EXCEPT !.id = IF keep THEN s.id
                              ELSE IF s.id = "mws_settings" THEN "mws_settings"
                              ELSE FreshServiceId(n)]>>
                \o WithIds(Tail(items), IF keep THEN n ELSE n + 1)

FreshIdsUsed(items) ==
    Cardinality({i \in DOMAIN items :
                    ~(items[i].id # Null /\ items[i].id # "" /\ ~StartsWithNew(items[i].id))})

\* The services of addClient: every entry gets a generated id.
RECURSIVE WithNewIds(_, _)
WithNewIds(items, n) ==
    IF items = <<>> THEN <<>>
    ELSE <<[Head(items) EXCEPT !.id = FreshServiceId(n)]>> \o WithNewIds(Tail(items), n + 1)

\* updateClient's array without the pseudo-service: only the user services.
NewServicesDroppingSettings(stored, updates) ==
    IF updates.services # Undefined
    THEN updates.services[1]
    ELSE SelectSeq(ServicesArray(stored), IsUserService)

\* updateClient, lines 193-217: the array to write, from the stored array read
\* and the updates.
NewServices(stored, updates) ==
    LET currentServices == ServicesArray(stored)
        found == FindMws(currentServices)
        mwsSettings == IF found # <<>> THEN found[1] ELSE MwsEntry(Undefined, Undefined)
        userServices == IF updates.services # Undefined
                        THEN updates.services[1]
                        ELSE SelectSeq(currentServices, IsUserService)
        withFee == IF updates.mws_fixed_fee # Undefined
                   THEN [mwsSettings EXCEPT !.fee = updates.mws_fixed_fee]
                   ELSE mwsSettings
        withPct == IF updates.mws_profit_percentage # Undefined
                   THEN [withFee EXCEPT !.pct = updates.mws_profit_percentage]
                   ELSE withFee
    IN userServices \o <<withPct>>

MwsSettingsProvided(updates) ==
    updates.mws_fixed_fee # Undefined \/ updates.mws_profit_percentage # Undefined

\* What callers pass. A services list comes from a form: entries of a client
\* the facade returned, and entries added in the form ('new_' ids).
FeeValues == {0, 100}
PctValues == {20}
ServiceLists == {<<>>, <<Service("new_1", "s1")>>, <<Service("service_a", "sa")>>}

NoUpdates ==
    [name |-> Undefined, services |-> Undefined, mws_fixed_fee |-> Undefined,
     mws_profit_percentage |-> Undefined, quote_webhook_url |-> Undefined]

UpdateInputs ==
    {[NoUpdates EXCEPT !.name = Some("n2")], [NoUpdates EXCEPT !.quote_webhook_url = Some("url2")]}
    \cup {[NoUpdates EXCEPT !.services = Some(l)] : l \in ServiceLists}
    \cup {[NoUpdates EXCEPT !.mws_fixed_fee = Some(f), !.mws_profit_percentage = Some(p)] :
            f \in FeeValues, p \in PctValues}
    \cup {[NoUpdates EXCEPT !.mws_fixed_fee = Some(f)] : f \in FeeValues}
    \cup {[NoUpdates EXCEPT !.mws_profit_percentage = Some(p)] : p \in PctValues}

\* Client ids are opaque to the facade; the model numbers the rows in the
\* order of their insertion.
ClientIds == 1 .. (1 + MaxClientCalls)
NewClientId(n) == n

SetPc(p, pc) == cpc' = [cpc EXCEPT ![p] = pc]
Throw(p, message) ==
    /\ cpc' = [cpc EXCEPT ![p] = "done"]
    /\ cres' = [cres EXCEPT ![p] = <<"error", message>>]
Return(p, client) ==
    /\ cpc' = [cpc EXCEPT ![p] = "done"]
    /\ cres' = [cres EXCEPT ![p] = <<"ok", client>>]

\* addClient(name, userId, services, quote_webhook_url) is called.
AddClientCall(p) ==
    /\ ClientFrame
    /\ cpc[p] = "idle"
    /\ clientCalls < MaxClientCalls
    /\ clientCalls' = clientCalls + 1
    /\ \E userId \in Users, services \in {<<>>, <<Service("", "s1")>>} :
          cop' = [cop EXCEPT ![p] = <<[op |-> "addClient", name |-> "n1", userId |-> userId,
                                       services |-> services]>>]
    /\ SetPc(p, "add_called")
    /\ cres' = [cres EXCEPT ![p] = <<>>]
    /\ UNCHANGED <<clients, nextClientId, nextServiceId, cloc, settled>>

\* 1. select id from clients where user_id = userId; throw when one exists.
AddClientCheck(p) ==
    /\ ClientFrame
    /\ cpc[p] = "add_called"
    /\ \/ Throw(p, "Errore durante la verifica del cliente esistente")
       \/ IF \E c \in clients : c.user_id = cop[p][1].userId
          THEN Throw(p, "Questo utente e' gia' associato a un cliente.")
          ELSE SetPc(p, "add_checked") /\ UNCHANGED cres
    /\ UNCHANGED <<clients, nextClientId, nextServiceId, cop, cloc, settled, clientCalls>>

\* 2. insert the client with generated service ids; return the new row.
AddClientInsert(p) ==
    /\ ClientFrame
    /\ cpc[p] = "add_checked"
    /\ \/ /\ Throw(p, "clientError.message")
          /\ UNCHANGED <<clients, nextClientId, nextServiceId>>
       \/ LET call == cop[p][1]
              servicesWithIds == WithNewIds(call.services, nextServiceId)
              newClient == [id |-> NewClientId(nextClientId), user_id |-> call.userId,
                            name |-> call.name, services |-> ArrayOf(servicesWithIds),
                            quote_webhook_url |-> Undefined]
          IN /\ clients' = clients \cup {newClient}
             /\ nextClientId' = nextClientId + 1
             /\ nextServiceId' = nextServiceId + Len(call.services)
             /\ Return(p, [id |-> newClient.id, user_id |-> newClient.user_id,
                           name |-> newClient.name,
                           quote_webhook_url |-> newClient.quote_webhook_url,
                           mws_fixed_fee |-> Undefined, mws_profit_percentage |-> Undefined,
                           services |-> servicesWithIds])
    /\ UNCHANGED <<cop, cloc, settled, clientCalls>>

\* updateClient(clientId, updates) is called.
UpdateClientCall(p) ==
    /\ ClientFrame
    /\ cpc[p] = "idle"
    /\ clientCalls < MaxClientCalls
    /\ clientCalls' = clientCalls + 1
    /\ \E c \in clients, updates \in UpdateInputs :
          cop' = [cop EXCEPT ![p] = <<[op |-> "updateClient", clientId |-> c.id,
                                       updates |-> updates]>>]
    /\ SetPc(p, "upd_called")
    /\ cres' = [cres EXCEPT ![p] = <<>>]
    /\ cloc' = [cloc EXCEPT ![p] = Undefined]
    /\ UNCHANGED <<clients, nextClientId, nextServiceId, settled>>

\* if (mwsSettingsProvided || updates.services): select services (single),
\* build the array to write and give ids to its new entries.
UpdateClientRead(p) ==
    /\ ClientFrame
    /\ cpc[p] = "upd_called"
    /\ LET call == cop[p][1]
           rows == {c \in clients : c.id = call.clientId}
       IN IF MwsSettingsProvided(call.updates) \/ call.updates.services # Undefined
          THEN \/ /\ Throw(p, "fetchError.message")
                  /\ UNCHANGED <<cloc, nextServiceId>>
               \/ /\ rows # {}
                  /\ LET stored == (CHOOSE c \in rows : TRUE).services
                         services == NewServices(stored, call.updates)
                     IN /\ cloc' = [cloc EXCEPT ![p] = Some(WithIds(services, nextServiceId))]
                        /\ nextServiceId' = nextServiceId + FreshIdsUsed(services)
                  /\ SetPc(p, "upd_read")
                  /\ UNCHANGED cres
          ELSE /\ SetPc(p, "upd_read")
               /\ UNCHANGED <<cloc, cres, nextServiceId>>
    /\ UNCHANGED <<clients, nextClientId, cop, settled, clientCalls>>

\* The row after update(updatesForSupabase).eq('id', clientId).
UpdatedRow(c, updates, services) ==
    [c EXCEPT !.name = IF updates.name # Undefined THEN updates.name[1] ELSE @,
              !.quote_webhook_url = IF updates.quote_webhook_url # Undefined
                                    THEN updates.quote_webhook_url ELSE @,
              !.services = IF services # Undefined THEN ArrayOf(services[1]) ELSE @]

\* The settings a completed call has set together, for the client written.
SettledAfter(call) ==
    IF call.updates.mws_fixed_fee # Undefined /\ call.updates.mws_profit_percentage # Undefined
    THEN [settled EXCEPT ![call.clientId] =
              Some(<<call.updates.mws_fixed_fee, call.updates.mws_profit_percentage>>)]
    ELSE IF MwsSettingsProvided(call.updates)
    THEN [settled EXCEPT ![call.clientId] = Undefined]
    ELSE settled

\* update(...).eq('id', clientId).select().single(), then unpack the row.
UpdateClientWrite(p) ==
    /\ ClientFrame
    /\ cpc[p] = "upd_read"
    /\ LET call == cop[p][1]
           rows == {c \in clients : c.id = call.clientId}
       IN \/ /\ Throw(p, "error.message")
             /\ UNCHANGED <<clients, settled>>
          \/ /\ rows # {}
             /\ LET old == CHOOSE c \in rows : TRUE
                    data == UpdatedRow(old, call.updates, cloc[p])
                IN /\ clients' = (clients \ {old}) \cup {data}
                   /\ Return(p, UnpackMwsSettings(data))
             /\ settled' = SettledAfter(call)
    /\ UNCHANGED <<nextClientId, nextServiceId, cop, cloc, clientCalls>>

\* The caller takes the result and may call again.
ClientReturn(p) ==
    /\ ClientFrame
    /\ cpc[p] = "done"
    /\ SetPc(p, "idle")
    /\ cop' = [cop EXCEPT ![p] = <<>>]
    /\ cloc' = [cloc EXCEPT ![p] = Undefined]
    /\ cres' = [cres EXCEPT ![p] = <<>>]
    /\ UNCHANGED <<clients, nextClientId, nextServiceId, settled, clientCalls>>

\* What the services column of an existing client may hold.
StoredServices ==
    {ArrayOf(<<>>), NullServices, BadString,
     ArrayOf(<<MwsEntry(Some(7), Some(5)), Service("service_a", "sa")>>),
     ArrayOf(<<Service("service_a", "sa"), NullEntry, MwsEntry(Some(7), Undefined),
               MwsEntry(Some(9), Some(9))>>),
     JsonStringOf(<<Service("service_a", "sa"), MwsEntry(Some(7), Some(5))>>)}

ClientIdle ==
    /\ nextClientId = 2
    /\ nextServiceId = 1
    /\ cpc = [p \in Procs |-> "idle"]
    /\ cop = [p \in Procs |-> <<>>]
    /\ cloc = [p \in Procs |-> Undefined]
    /\ cres = [p \in Procs |-> <<>>]
    /\ settled = [c \in ClientIds |-> Undefined]
    /\ clientCalls = 0

ClientInit ==
    /\ \E stored \in StoredServices :
          clients = {[id |-> 1, user_id |-> "u1", name |-> "n1", services |-> stored,
                      quote_webhook_url |-> Undefined]}
    /\ ClientIdle

ClientRest ==
    /\ clients = {}
    /\ ClientIdle

ClientStep(p) ==
    \/ AddClientCall(p)
    \/ AddClientCheck(p)
    \/ AddClientInsert(p)
    \/ UpdateClientCall(p)
    \/ UpdateClientRead(p)
    \/ UpdateClientWrite(p)
    \/ ClientReturn(p)

\* One caller, one call at a time.
ClientSeqNext == ClientStep(1)

\* Two callers whose calls interleave statement by statement.
ClientRaceNext == \E p \in Procs : ClientStep(p)

(***************************************************************************)
(* Revenue calculator: ClientRevenueCalculator.revenueData                 *)
(***************************************************************************)
\* Amounts (lead values, ad spends, the fixed fee) are whole numbers and the
\* percentage is a whole number of percent. The quotient of
\* (clientProfit * mwsPercentage) / 100 is kept exact by holding mwsProfitShare
\* and mwsRevenue in hundredths.

\* Instants a lead or an ad spend may be dated at, and the windows over them.
Days == 1 .. 3
Windows ==
    {[start |-> Some(w[1]), end |-> Some(w[2])] :
        w \in {x \in Days \X Days : x[1] <= x[2]}}
        \cup {[start |-> Undefined, end |-> Undefined]}

\* x || 0 for an optional number.
OrZero(x) == IF x = Undefined THEN 0 ELSE x[1]

\* new Date(l.data._revenue_attribution_date || l.created_at)
LeadDate(l) == IF l.attribution # Undefined THEN l.attribution[1] ELSE l.created_at

\* A window that leaves out what is dated at its end.
InRangeEndExclusive(date, range) ==
    /\ (range.start = Undefined \/ date >= range.start[1])
    /\ (range.end = Undefined \/ date < range.end[1])

\* isAfter && isBefore: both ends of the window are included.
InRange(date, range) ==
    /\ (range.start = Undefined \/ date >= range.start[1])
    /\ (range.end = Undefined \/ date <= range.end[1])

\* A status filter that lets every lead through.
IsAnyLead(l) == TRUE

\* l.status === 'Vinto'
IsWon(l) == l.status = "Vinto"

\* reduce((sum, l) => sum + (l.value || 0), 0)
RECURSIVE SumValues(_)
SumValues(leads) ==
    IF leads = <<>> THEN 0 ELSE OrZero(Head(leads).value) + SumValues(Tail(leads))

\* reduce((sum, s) => sum + s.amount, 0)
RECURSIVE SumAmounts(_)
SumAmounts(spends) ==
    IF spends = <<>> THEN 0 ELSE Head(spends).amount + SumAmounts(Tail(spends))

\* The body of the useMemo.
RevenueData(client, range) ==
    LET filtering == range.start # Undefined \/ range.end # Undefined
        leads == IF filtering
                 THEN SelectSeq(client.leads, LAMBDA l : InRange(LeadDate(l), range))
                 ELSE client.leads
        spends == IF filtering
                  THEN SelectSeq(client.adSpends, LAMBDA sp : InRange(sp.date, range))
                  ELSE client.adSpends
        wonLeads == SelectSeq(leads, IsWon)
        clientRevenue == SumValues(wonLeads)
        totalAdSpend == SumAmounts(spends)
        clientProfit == clientRevenue - totalAdSpend
        mwsFixed == OrZero(client.mws_fixed_fee)
        mwsPercentage == OrZero(client.mws_profit_percentage)
        mwsProfitShare100 == IF clientProfit > 0 THEN clientProfit * mwsPercentage ELSE 0
    IN [clientRevenue |-> clientRevenue, totalAdSpend |-> totalAdSpend,
        clientProfit |-> clientProfit, mwsFixed |-> mwsFixed,
        mwsPercentage |-> mwsPercentage, mwsProfitShare100 |-> mwsProfitShare100,
        mwsRevenue100 |-> 100 * mwsFixed + mwsProfitShare100]

\* What the backend may hold for the client.
Lead(status, value, created_at, attribution) ==
    [status |-> status, value |-> value, created_at |-> created_at,
     attribution |-> attribution]
LeadOptions ==
    {Lead("Vinto", Some(1000), d, Undefined) : d \in Days}
        \cup {Lead("Vinto", Undefined, 2, Undefined),
              Lead("Nuovo", Some(1000), 2, Undefined),
              Lead("Vinto", Some(1000), 3, Some(1))}
SpendAmounts == {200, 1500}
FixedFees == {Undefined, Some(100)}
Percentages == {Undefined, Some(20)}

\* The page fetches the client again and a lead has been added.
RevLeadAdded ==
    /\ RevFrame
    /\ Len(revClient.leads) < MaxLeads
    /\ \E l \in LeadOptions :
          revClient' = [revClient EXCEPT !.leads = Append(@, l)]
    /\ revenueData' = RevenueData(revClient', dateRange)
    /\ UNCHANGED dateRange

\* The page fetches the client again and an ad spend has been added.
RevAdSpendAdded ==
    /\ RevFrame
    /\ Len(revClient.adSpends) < MaxAdSpends
    /\ \E amount \in SpendAmounts, date \in Days :
          revClient' = [revClient EXCEPT !.adSpends =
              Append(@, [amount |-> amount, date |-> date])]
    /\ revenueData' = RevenueData(revClient', dateRange)
    /\ UNCHANGED dateRange

\* The page fetches the client again and its commission settings have changed.
RevSettingsChanged ==
    /\ RevFrame
    /\ \E fee \in FixedFees, pct \in Percentages :
          /\ <<fee, pct>> # <<revClient.mws_fixed_fee, revClient.mws_profit_percentage>>
          /\ revClient' = [revClient EXCEPT !.mws_fixed_fee = fee,
                                            !.mws_profit_percentage = pct]
    /\ revenueData' = RevenueData(revClient', dateRange)
    /\ UNCHANGED dateRange

\* Another window is selected.
RevSelectRange ==
    /\ RevFrame
    /\ \E range \in Windows :
          /\ range # dateRange
          /\ dateRange' = range
    /\ revenueData' = RevenueData(revClient, dateRange')
    /\ UNCHANGED revClient

EmptyClient ==
    [leads |-> <<>>, adSpends |-> <<>>, mws_fixed_fee |-> Undefined,
     mws_profit_percentage |-> Undefined]

RevRest ==
    /\ revClient = EmptyClient
    /\ dateRange = [start |-> Undefined, end |-> Undefined]
    /\ revenueData = RevenueData(revClient, dateRange)

RevInit == RevRest

RevNext ==
    \/ RevLeadAdded
    \/ RevAdSpendAdded
    \/ RevSettingsChanged
    \/ RevSelectRange

(***************************************************************************)
(* The window of the selected month: MwsRevenuePage.dateRange              *)
(***************************************************************************)
\* Instants are counted in tenths of a second of local time from the start of
\* January 2023; every day has 24 hours (no change of the clock's offset).
TicksPerSecond == 5 + 5
TicksPerDay == 24 * 60 * 60 * TicksPerSecond

\* The months the month input can show.
SelectedMonths == {"2023-01", "2023-02", "2023-03"}

\* The days of the months of 2023, and the days before the end of month k.
DaysInMonth == <<31, 28, 31, 30, 31, 30, 31, 31, 30, 31, 30, 31>>
RECURSIVE DaysBefore(_)
DaysBefore(k) == IF k <= 0 THEN 0 ELSE DaysInMonth[k] + DaysBefore(k - 1)

\* Number(s) for a string of decimal digits.
DigitOf(ch) ==
    CASE ch = "0" -> 0 [] ch = "1" -> 1 [] ch = "2" -> 2 [] ch = "3" -> 3
      [] ch = "4" -> 4 [] ch = "5" -> 5 [] ch = "6" -> 6 [] ch = "7" -> 7
      [] ch = "8" -> 8 [] ch = "9" -> 9
RECURSIVE NumberOf(_)
NumberOf(str) ==
    IF Len(str) = 0 THEN 0
    ELSE 10 * NumberOf(SubSeq(str, 1, Len(str) - 1)) + DigitOf(SubSeq(str, Len(str), Len(str)))

\* selectedMonth.split('-')
SplitMonth(month) == <<SubSeq(month, 1, 4), SubSeq(month, 6, 7)>>

\* new Date(2023, monthIndex, day, hours, minutes, seconds): monthIndex counts
\* from 0 and day 0 is the last day of the month before.
LocalDate(monthIndex, day, hours, minutes, seconds) ==
    (DaysBefore(monthIndex) + day - 1) * TicksPerDay
        + ((hours * 60 + minutes) * 60 + seconds) * TicksPerSecond

\* The dateRange useMemo.
DateRangeOf(month) ==
    LET monthNumber == NumberOf(SplitMonth(month)[2])
    IN [start |-> Some(LocalDate(monthNumber - 1, 1, 0, 0, 0)),
        end |-> Some(LocalDate(monthNumber, 0, 23, 59, 59))]

\* Instants around the ends of February 2023.
BoundaryInstants ==
    LET feb == LocalDate(1, 1, 0, 0, 0)
        mar == LocalDate(2, 1, 0, 0, 0)
    IN {feb - TicksPerSecond, feb - 5, feb, feb + TicksPerDay,
        mar - TicksPerSecond, mar - 5, mar}

MonthLeadOptions ==
    {Lead("Vinto", Some(1000), d, Undefined) : d \in BoundaryInstants}
        \cup {Lead("Vinto", Some(1000), LocalDate(0, 1, 0, 0, 0), Some(LocalDate(1, 1, 0, 0, 0))),
              Lead("Vinto", Some(1000), LocalDate(1, 1, 0, 0, 0), Some(LocalDate(2, 1, 0, 0, 0)))}

\* The page fetches the client again and a lead has been added.
MonthLeadAdded ==
    /\ MonthFrame
    /\ Len(revClient.leads) < MaxMonthLeads
    /\ \E l \in MonthLeadOptions :
          revClient' = [revClient EXCEPT !.leads = Append(@, l)]
    /\ revenueData' = RevenueData(revClient', dateRange)
    /\ UNCHANGED <<dateRange, selectedMonth>>

\* The page fetches the client again and an ad spend has been added.
MonthAdSpendAdded ==
    /\ MonthFrame
    /\ Len(revClient.adSpends) < MaxMonthAdSpends
    /\ \E date \in BoundaryInstants :
          revClient' = [revClient EXCEPT !.adSpends =
              Append(@, [amount |-> 200, date |-> date])]
    /\ revenueData' = RevenueData(revClient', dateRange)
    /\ UNCHANGED <<dateRange, selectedMonth>>

\* onChange of the month input, and the calculator's render that follows.
MonthSelect ==
    /\ MonthFrame
    /\ \E month \in SelectedMonths :
          /\ month # selectedMonth
          /\ selectedMonth' = month
    /\ dateRange' = DateRangeOf(selectedMonth')
    /\ revenueData' = RevenueData(revClient, dateRange')
    /\ UNCHANGED revClient

PageRest ==
    /\ selectedMonth = "2023-01"
    /\ userRole = "admin"
    /\ currentMonth = "2023-01"
    /\ isReadOnly = FALSE
    /\ backendClient = EmptyClient
    /\ revenueTable = <<>>
    /\ allClients = <<>>
    /\ mwsRevenues = <<>>
    /\ fetchPending = 0
    /\ pendingSave = <<>>
    /\ saveSeen = <<>>
    /\ paymentModalData = <<>>
    /\ isPaymentModalOpen = FALSE
    /\ isPaidInFull = FALSE
    /\ modalAmount = ""
    /\ modalError = ""
    /\ pendingPayment = <<>>
    /\ lastConfirm = <<>>
    /\ pageSteps = 0

PageRestOfMonth ==
    /\ userRole = "admin"
    /\ currentMonth = "2023-01"
    /\ isReadOnly = FALSE
    /\ backendClient = EmptyClient
    /\ revenueTable = <<>>
    /\ allClients = <<>>
    /\ mwsRevenues = <<>>
    /\ fetchPending = 0
    /\ pendingSave = <<>>
    /\ saveSeen = <<>>
    /\ paymentModalData = <<>>
    /\ isPaymentModalOpen = FALSE
    /\ isPaidInFull = FALSE
    /\ modalAmount = ""
    /\ modalError = ""
    /\ pendingPayment = <<>>
    /\ lastConfirm = <<>>
    /\ pageSteps = 0

MonthInit ==
    /\ selectedMonth \in SelectedMonths
    /\ revClient = EmptyClient
    /\ dateRange = DateRangeOf(selectedMonth)
    /\ revenueData = RevenueData(revClient, dateRange)

MonthNext ==
    \/ MonthLeadAdded
    \/ MonthAdSpendAdded
    \/ MonthSelect

(***************************************************************************)
(* The revenue page: MwsRevenuePage, its calculator and its payment dialog *)
(***************************************************************************)
\* The page is modelled for one client. Stored amounts are in hundredths, as
\* mwsRevenue is.
PageClientId == "c1"

MidFebruary == LocalDate(1, 15, 12, 0, 0)

ClientWith(fee, pct, leads, spends) ==
    [leads |-> leads, adSpends |-> spends, mws_fixed_fee |-> fee,
     mws_profit_percentage |-> pct]

\* What the backend may hold for the client: a revenue in February of 260.00,
\* of 108.00 with the same leads and ad spends, of 260.01 and of 0.
PageClientOptions ==
    {ClientWith(Some(100), Some(20), <<Lead("Vinto", Some(1000), MidFebruary, Undefined)>>,
                <<[amount |-> 200, date |-> MidFebruary]>>),
     ClientWith(Some(100), Some(1), <<Lead("Vinto", Some(1000), MidFebruary, Undefined)>>,
                <<[amount |-> 200, date |-> MidFebruary]>>),
     ClientWith(Some(260), Some(1), <<Lead("Vinto", Some(1), MidFebruary, Undefined)>>, <<>>),
     EmptyClient}

\* Date.prototype.getFullYear and getMonth (counted from 0) of an instant of 2023.
GetFullYear(date) == 2023
GetMonth(date) ==
    CHOOSE k \in 0 .. 11 :
        DaysBefore(k) * TicksPerDay <= date /\ date < DaysBefore(k + 1) * TicksPerDay

\* String.prototype.padStart(2, '0') and startsWith.
PadStart2(str) == IF Len(str) < 2 THEN "0" \o str ELSE str
StartsWith(str, prefix) ==
    Len(str) >= Len(prefix) /\ SubSeq(str, 1, Len(prefix)) = prefix

\* The month of a revenue save: from dateRange.start.
MonthOfSave(start) ==
    ToString(GetFullYear(start)) \o "-" \o PadStart2(ToString(GetMonth(start) + 1)) \o "-01"

\* The month of a payment: from selectedMonth.split('-').
MonthOfPayment(month) == SplitMonth(month)[1] \o "-" \o SplitMonth(month)[2] \o "-01"

\* mwsRevenues.find(r => r.client_id === client.id && r.month.startsWith(selectedMonth))
SavedDataFor(revenues, month) ==
    LET found == {i \in DOMAIN revenues :
                     revenues[i].client_id = PageClientId /\ StartsWith(revenues[i].month, month)}
    IN IF found = {} THEN Undefined
       ELSE Some(revenues[CHOOSE i \in found : \A j \in found : i <= j])

\* The revenueData of the calculator the page renders for the client.
PageRevenueData == RevenueData(allClients[1], DateRangeOf(selectedMonth))

Abs(x) == IF x < 0 THEN 0 - x ELSE x

\* A test that takes every difference for a pending change.
HasPendingChangesOnAnyDifference ==
    LET saved == SavedDataFor(mwsRevenues, selectedMonth)
    IN IF saved # Undefined
       THEN saved[1].revenue_amount # PageRevenueData.mwsRevenue100
       ELSE PageRevenueData.mwsRevenue100 > 0

\* hasPendingChanges; 0.01 is one hundredth.
HasPendingChanges ==
    LET saved == SavedDataFor(mwsRevenues, selectedMonth)
    IN IF saved # Undefined
       THEN Abs(saved[1].revenue_amount - PageRevenueData.mwsRevenue100) > 1
       ELSE PageRevenueData.mwsRevenue100 > 0

\* An insert that looks for no conflict.
InsertRow(table, row) == Append(table, row)

\* upsert(row, { onConflict: 'client_id, month' }): the row with the same
\* client_id and month is updated, and without one the row is inserted.
Upsert(table, row) ==
    IF \E i \in DOMAIN table :
          table[i].client_id = row.client_id /\ table[i].month = row.month
    THEN [i \in DOMAIN table |->
             IF table[i].client_id = row.client_id /\ table[i].month = row.month
             THEN row ELSE table[i]]
    ELSE Append(table, row)

\* An isReadOnly that only looks at the role.
IsReadOnlyForClientsOnly(role, month, today) == role # "admin"

\* The isReadOnly useMemo.
IsReadOnlyFor(role, month, today) == role # "admin" \/ month # today

\* existingPaidAmount, remainingDue and toFixed(2) of the payment dialog.
ExistingPaidAmount(revenues, month) ==
    LET saved == SavedDataFor(revenues, month)
    IN IF saved = Undefined THEN 0 ELSE saved[1].paid_amount

\* A remaining due that leaves out what has been paid.
RemainingDueOfTotal(totalDue, existingPaidAmount) == totalDue

RemainingDue(totalDue, existingPaidAmount) ==
    IF totalDue - existingPaidAmount > 0 THEN totalDue - existingPaidAmount ELSE 0
ToFixed2(hundredths) ==
    ToString(hundredths \div 100) \o "." \o PadStart2(ToString(hundredths % 100))

\* The dialog's useEffect: when it is open and the total due or the existing
\* paid amount has changed, the fields are set again.
DialogEffect(open, revenues, month, data, changed) ==
    IF open /\ changed
    THEN LET newRemainingDue ==
                 RemainingDue(data[1].totalDue, ExistingPaidAmount(revenues, month))
         IN /\ isPaidInFull' = (newRemainingDue = 0)
            /\ modalAmount' = (IF newRemainingDue > 0 THEN ToFixed2(newRemainingDue) ELSE "")
            /\ modalError' = ""
            /\ lastConfirm' = Undefined
    ELSE UNCHANGED <<isPaidInFull, modalAmount, modalError, lastConfirm>>

\* The record of an applied save ends with the next fetch or payment; that of
\* a save still in flight stays.
SaveSeenAfter ==
    IF saveSeen # Undefined /\ saveSeen[1].applied THEN Undefined ELSE saveSeen

\* fetchData completes: both reads succeeded, or one failed and was logged.
PageFetchData ==
    /\ PageFrame
    /\ fetchPending > 0
    /\ fetchPending' = fetchPending - 1
    /\ \/ /\ allClients' = <<backendClient>>
          /\ mwsRevenues' = revenueTable
          /\ saveSeen' = SaveSeenAfter
          /\ DialogEffect(isPaymentModalOpen, mwsRevenues', selectedMonth, paymentModalData,
                          ExistingPaidAmount(mwsRevenues', selectedMonth)
                              # ExistingPaidAmount(mwsRevenues, selectedMonth))
       \/ UNCHANGED <<allClients, mwsRevenues, saveSeen, isPaidInFull, modalAmount,
                       modalError, lastConfirm>>
    /\ UNCHANGED <<monthVars, userRole, currentMonth, isReadOnly, backendClient, revenueTable,
                   pendingSave, paymentModalData, isPaymentModalOpen, pendingPayment,
                   pageSteps>>

\* onChange of the month input; the dialog, when open, covers the page.
PageSelectMonth ==
    /\ PageFrame
    /\ ~isPaymentModalOpen
    /\ \E month \in SelectedMonths :
          /\ month # selectedMonth
          /\ selectedMonth' = month
    /\ isReadOnly' = IsReadOnlyFor(userRole, selectedMonth', currentMonth)
    /\ UNCHANGED <<userRole, currentMonth, backendClient, revenueTable, allClients, mwsRevenues,
                   fetchPending, pendingSave, saveSeen, dialogVars, pageSteps>>

\* Leads, ad spends or commission settings of the client change in the backend.
PageBackendClientChanged ==
    /\ PageFrame
    /\ pageSteps < MaxPageSteps
    /\ pageSteps' = pageSteps + 1
    /\ \E c \in PageClientOptions :
          /\ c # backendClient
          /\ backendClient' = c
    /\ UNCHANGED <<monthVars, userRole, currentMonth, isReadOnly, revenueTable, allClients,
                   mwsRevenues, fetchPending, pendingSave, saveSeen, dialogVars>>

\* handleSave of the calculator up to the upsert it awaits. The button is
\* rendered unless isReadOnly and enabled unless isSaving or nothing is pending.
CalcHandleSave ==
    /\ PageFrame
    /\ pageSteps < MaxPageSteps
    /\ allClients # <<>>
    /\ ~isReadOnly
    /\ ~isPaymentModalOpen
    /\ pendingSave = Undefined
    /\ HasPendingChanges
    /\ pageSteps' = pageSteps + 1
    /\ LET saved == SavedDataFor(mwsRevenues, selectedMonth)
       IN pendingSave' =
             Some([client_id |-> PageClientId,
                   month |-> MonthOfSave(DateRangeOf(selectedMonth).start[1]),
                   revenue_amount |-> PageRevenueData.mwsRevenue100,
                   paid_amount |-> IF saved = Undefined THEN 0 ELSE saved[1].paid_amount,
                   status |-> IF saved = Undefined THEN "unpaid" ELSE saved[1].status])
    /\ saveSeen' = Some([client |-> allClients[1], month |-> selectedMonth, applied |-> FALSE])
    /\ UNCHANGED <<monthVars, userRole, currentMonth, isReadOnly, backendClient, revenueTable,
                   allClients, mwsRevenues, fetchPending, dialogVars>>

\* The upsert of a revenue save completes: applied, then onClientUpdate; or
\* failed and logged.
CalcSaveDone ==
    /\ PageFrame
    /\ pendingSave # Undefined
    /\ pendingSave' = Undefined
    /\ \/ /\ revenueTable' = Upsert(revenueTable, pendingSave[1])
          /\ fetchPending' = fetchPending + 1
          /\ saveSeen' = Some([saveSeen[1] EXCEPT !.applied = TRUE])
       \/ /\ saveSeen' = Undefined
          /\ UNCHANGED <<revenueTable, fetchPending>>
    /\ UNCHANGED <<monthVars, userRole, currentMonth, isReadOnly, backendClient, allClients,
                   mwsRevenues, dialogVars, pageSteps>>

\* parseFloat: the longest prefix that reads as a decimal number, in
\* hundredths; Undefined stands for NaN.
NaN == Undefined
IsDigit(ch) == ch \in {"0", "1", "2", "3", "4", "5", "6", "7", "8", "9"}
RECURSIVE DigitsPrefix(_)
DigitsPrefix(str) ==
    IF Len(str) = 0 \/ ~IsDigit(SubSeq(str, 1, 1)) THEN ""
    ELSE SubSeq(str, 1, 1) \o DigitsPrefix(SubSeq(str, 2, Len(str)))
ParseFloat(str) ==
    LET negative == Len(str) > 0 /\ SubSeq(str, 1, 1) = "-"
        body == IF negative THEN SubSeq(str, 2, Len(str)) ELSE str
        whole == DigitsPrefix(body)
        rest == SubSeq(body, Len(whole) + 1, Len(body))
        fraction == IF Len(rest) > 0 /\ SubSeq(rest, 1, 1) = "."
                    THEN DigitsPrefix(SubSeq(rest, 2, Len(rest)))
                    ELSE ""
        hundredths == 100 * NumberOf(whole) + NumberOf(SubSeq(fraction \o "00", 1, 2))
    IN IF whole = "" /\ fraction = "" THEN NaN
       ELSE Some(IF negative THEN 0 - hundredths ELSE hundredths)

\* A total that counts as paid only when the box is checked.
IsTotalWhenMarked(paidInFull, totalPaidAmount, totalDue) == paidInFull

\* isTotal: isPaidInFull || totalPaidAmount >= totalDue
IsTotal(paidInFull, totalPaidAmount, totalDue) == paidInFull \/ totalPaidAmount >= totalDue

\* status: isTotal ? 'paid' : (amount > 0 ? 'partially_paid' : 'unpaid')
PaymentStatus(isTotal, paidAmount) ==
    IF isTotal THEN "paid" ELSE IF paidAmount > 0 THEN "partially_paid" ELSE "unpaid"

\* What a user types into the amount field (a number input).
AmountTexts == {"", "100", "300.00", "-5", "0"}

\* handleOpenPaymentModal, from the calculator's payment button; the button is
\* rendered unless isReadOnly and disabled when nothing is saved and due.
OpenPaymentModal ==
    /\ PageFrame
    /\ allClients # <<>>
    /\ ~isReadOnly
    /\ ~isPaymentModalOpen
    /\ LET saved == SavedDataFor(mwsRevenues, selectedMonth)
       IN /\ ~(saved = Undefined /\ PageRevenueData.mwsRevenue100 = 0)
          /\ paymentModalData' =
                Some([client |-> PageClientId, month |-> selectedMonth,
                      totalDue |-> IF saved # Undefined /\ saved[1].revenue_amount # 0
                                   THEN saved[1].revenue_amount
                                   ELSE PageRevenueData.mwsRevenue100])
    /\ isPaymentModalOpen' = TRUE
    /\ DialogEffect(TRUE, mwsRevenues, selectedMonth, paymentModalData', TRUE)
    /\ UNCHANGED <<monthVars, userRole, currentMonth, isReadOnly, backendClient, revenueTable,
                   allClients, mwsRevenues, fetchPending, pendingSave, saveSeen, pendingPayment,
                   pageSteps>>

\* onChange of the check box.
DialogSetPaidInFull ==
    /\ PageFrame
    /\ isPaymentModalOpen
    /\ isPaidInFull' = ~isPaidInFull
    /\ UNCHANGED <<monthVars, userRole, currentMonth, isReadOnly, backendClient, revenueTable,
                   allClients, mwsRevenues, fetchPending, pendingSave, saveSeen, paymentModalData,
                   isPaymentModalOpen, modalAmount, modalError, pendingPayment, pageSteps>>
    /\ lastConfirm' = Undefined

\* onChange of the amount field, which is disabled while the box is checked.
DialogSetAmount ==
    /\ PageFrame
    /\ isPaymentModalOpen
    /\ ~isPaidInFull
    /\ \E text \in AmountTexts :
          /\ text # modalAmount
          /\ modalAmount' = text
    /\ UNCHANGED <<monthVars, userRole, currentMonth, isReadOnly, backendClient, revenueTable,
                   allClients, mwsRevenues, fetchPending, pendingSave, saveSeen, paymentModalData,
                   isPaymentModalOpen, isPaidInFull, modalError, pendingPayment, pageSteps>>
    /\ lastConfirm' = Undefined

\* onClose of the dialog.
DialogClose ==
    /\ PageFrame
    /\ isPaymentModalOpen
    /\ isPaymentModalOpen' = FALSE
    /\ UNCHANGED <<monthVars, userRole, currentMonth, isReadOnly, backendClient, revenueTable,
                   allClients, mwsRevenues, fetchPending, pendingSave, saveSeen, paymentModalData,
                   isPaidInFull, modalAmount, modalError, pendingPayment, pageSteps>>
    /\ lastConfirm' = Undefined

\* PaymentModal.handleSave and, through onSave, handleSavePayment up to the
\* upsert it awaits. One payment upsert is in flight at a time.
DialogHandleSave ==
    /\ PageFrame
    /\ isPaymentModalOpen
    /\ pendingPayment = Undefined
    /\ pageSteps < MaxPageSteps
    /\ pageSteps' = pageSteps + 1
    /\ LET totalDue == paymentModalData[1].totalDue
           existingPaidAmount == ExistingPaidAmount(mwsRevenues, selectedMonth)
           remainingDue == RemainingDue(totalDue, existingPaidAmount)
           paymentAmount == ParseFloat(modalAmount)
           seen == [totalDue |-> totalDue, existingPaidAmount |-> existingPaidAmount,
                    isPaidInFull |-> isPaidInFull, amount |-> modalAmount]
       IN IF paymentAmount = NaN \/ paymentAmount[1] < 0
          THEN /\ modalError' = "error_invalid_amount"
               /\ lastConfirm' = Some([seen |-> seen, issued |-> Undefined])
               /\ UNCHANGED pendingPayment
          ELSE IF ~isPaidInFull /\ paymentAmount[1] > remainingDue
          THEN /\ modalError' = "error_overpayment"
               /\ lastConfirm' = Some([seen |-> seen, issued |-> Undefined])
               /\ UNCHANGED pendingPayment
          ELSE LET totalPaidAmount ==
                       existingPaidAmount
                           + (IF isPaidInFull THEN remainingDue ELSE paymentAmount[1])
                   isTotal == IsTotal(isPaidInFull, totalPaidAmount, totalDue)
                   payload ==
                       [client_id |-> paymentModalData[1].client,
                        month |-> MonthOfPayment(selectedMonth),
                        revenue_amount |-> totalDue,
                        paid_amount |-> totalPaidAmount,
                        status |-> PaymentStatus(isTotal, totalPaidAmount)]
               IN /\ pendingPayment' = Some(payload)
                  /\ lastConfirm' = Some([seen |-> seen, issued |-> Some(payload)])
                  /\ UNCHANGED modalError
    /\ UNCHANGED <<monthVars, userRole, currentMonth, isReadOnly, backendClient, revenueTable,
                   allClients, mwsRevenues, fetchPending, pendingSave, saveSeen, paymentModalData,
                   isPaymentModalOpen, isPaidInFull, modalAmount>>

\* The upsert of a payment completes: applied, then the dialog closes and
\* fetchData starts; or failed, and handleSavePayment ends there.
PaymentDone ==
    /\ PageFrame
    /\ pendingPayment # Undefined
    /\ pendingPayment' = Undefined
    /\ \/ /\ revenueTable' = Upsert(revenueTable, pendingPayment[1])
          /\ isPaymentModalOpen' = FALSE
          /\ fetchPending' = fetchPending + 1
          /\ saveSeen' = SaveSeenAfter
       \/ UNCHANGED <<revenueTable, isPaymentModalOpen, fetchPending, saveSeen>>
    /\ UNCHANGED <<monthVars, userRole, currentMonth, isReadOnly, backendClient, allClients,
                   mwsRevenues, pendingSave, paymentModalData, isPaidInFull, modalAmount,
                   modalError, pageSteps>>
    /\ lastConfirm' = Undefined

\* The row of an earlier month the table holds when the page is opened.
EarlierRows ==
    <<[client_id |-> PageClientId, month |-> "2023-01-01", revenue_amount |-> 10000,
       paid_amount |-> 10000, status |-> "paid"]>>

PageInit ==
    /\ userRole \in {"admin", "client"}
    /\ currentMonth = "2023-02"
    /\ selectedMonth = currentMonth
    /\ isReadOnly = IsReadOnlyFor(userRole, selectedMonth, currentMonth)
    /\ backendClient \in PageClientOptions
    /\ revenueTable = EarlierRows
    /\ allClients = <<>>
    /\ mwsRevenues = <<>>
    /\ fetchPending = 1
    /\ pendingSave = Undefined
    /\ saveSeen = Undefined
    /\ paymentModalData = Undefined
    /\ isPaymentModalOpen = FALSE
    /\ isPaidInFull = FALSE
    /\ modalAmount = ""
    /\ modalError = ""
    /\ pendingPayment = Undefined
    /\ lastConfirm = Undefined
    /\ pageSteps = 0

PageNext ==
    \/ PageFetchData
    \/ PageSelectMonth
    \/ PageBackendClientChanged
    \/ CalcHandleSave
    \/ CalcSaveDone
    \/ OpenPaymentModal
    \/ DialogSetPaidInFull
    \/ DialogSetAmount
    \/ DialogClose
    \/ DialogHandleSave
    \/ PaymentDone

(***************************************************************************)
(* Leads and accounts: addLead and deleteClient                            *)
(***************************************************************************)
LeadClientIds == {"c1", "c2"}
AdminIds == {"a1", "a2"}

\* The user and the name of a client.
UserOf(clientId) == IF clientId = "c1" THEN "u1" ELSE "u2"
NameOf(clientId) == IF clientId = "c1" THEN "Rossi" ELSE "Bianchi"

\* select('user_id, name').eq('id', clientId).single(): the row when there is
\* exactly one, else null.
SelectSingleClient(clientId) ==
    LET rows == {r \in clientRows : r.id = clientId}
    IN IF Cardinality(rows) = 1 THEN Some(CHOOSE r \in rows : TRUE) ELSE Undefined

\* select('id').eq('role', 'admin')
SelectAdmins == {r.id : r \in {q \in profiles : q.role = "admin"}}

\* notificationsToInsert
NotificationsToInsert(client, admins, lead, clientId) ==
    {[user_id |-> client.user_id, title |-> "Nuovo Lead Ricevuto!",
      lead_id |-> lead.id, client_id |-> clientId]}
    \cup {[user_id |-> a, title |-> "Nuovo Lead per " \o client.name,
           lead_id |-> lead.id, client_id |-> clientId] : a \in admins}

\* Whether the notification rows are built and inserted at all.
NotifiesAbout(client, admins) ==
    client # Undefined /\ admins # Undefined /\ admins[1] # {}

\* A notification step whose failure reaches the caller.
AfterNotificationStepRethrowing(lead) ==
    IF notifInsert = "threw" THEN <<"error">> ELSE <<"ok", lead>>

\* What addLead gives its caller once the notification step is over, however
\* it went.
AfterNotificationStep(lead) == <<"ok", lead>>

\* addLead is called.
AddLeadCall ==
    /\ LeadFrame
    /\ addPc \in {"idle", "done"}
    /\ leadCalls < MaxLeadCalls
    /\ leadCalls' = leadCalls + 1
    /\ \E clientId \in LeadClientIds : addClientId' = clientId
    /\ addPc' = "insert"
    /\ newLead' = Undefined
    /\ leadClientData' = Undefined
    /\ adminUsers' = Undefined
    /\ notifInsert' = "none"
    /\ addResult' = Undefined
    /\ UNCHANGED <<profiles, logins, clientRows, leadRows, leadNotifs, nextLeadId,
                   delPc, delClientId, delClient, rpcCalls, delResult, deleteCalls>>

\* The insert of the lead: the row is stored and returned, or the backend
\* reports an error and addLead throws.
AddLeadInsert ==
    /\ LeadFrame
    /\ addPc = "insert"
    /\ \/ /\ newLead' = Some([id |-> nextLeadId, client_id |-> addClientId])
          /\ leadRows' = leadRows \cup {[id |-> nextLeadId, client_id |-> addClientId]}
          /\ nextLeadId' = nextLeadId + 1
          /\ addPc' = "readClient"
          /\ UNCHANGED addResult
       \/ /\ addResult' = <<"error">>
          /\ addPc' = "done"
          /\ UNCHANGED <<newLead, leadRows, nextLeadId>>
    /\ UNCHANGED <<profiles, logins, clientRows, leadNotifs, addClientId, leadClientData,
                   adminUsers, notifInsert, leadCalls,
                   delPc, delClientId, delClient, rpcCalls, delResult, deleteCalls>>

\* The select of the client inside the try block: its data, null when the
\* backend reports an error, or an exception that the catch logs.
AddLeadReadClient ==
    /\ LeadFrame
    /\ addPc = "readClient"
    /\ \/ /\ leadClientData' = SelectSingleClient(addClientId)
          /\ addPc' = "readAdmins"
          /\ UNCHANGED notifInsert
       \/ /\ leadClientData' = Undefined
          /\ addPc' = "readAdmins"
          /\ UNCHANGED notifInsert
       \/ /\ notifInsert' = "threw"
          /\ addPc' = "return"
          /\ UNCHANGED leadClientData
    /\ UNCHANGED <<profiles, logins, clientRows, leadRows, leadNotifs, nextLeadId,
                   addClientId, newLead, adminUsers, addResult, leadCalls,
                   delPc, delClientId, delClient, rpcCalls, delResult, deleteCalls>>

\* The select of the admin profiles (its data, null, or an exception), and the
\* insert of the notification rows when both selects gave data and there is an
\* admin. The insert's result is not looked at; an exception goes to the catch.
AddLeadNotify ==
    /\ LeadFrame
    /\ addPc = "readAdmins"
    /\ addPc' = "return"
    /\ \E admins \in {Some(SelectAdmins), Undefined} :
          /\ adminUsers' = admins
          /\ IF NotifiesAbout(leadClientData, admins)
             THEN \/ /\ leadNotifs' = leadNotifs \cup
                            NotificationsToInsert(leadClientData[1], admins[1], newLead[1],
                                                  addClientId)
                     /\ notifInsert' = "ok"
                  \/ /\ notifInsert' \in {"error", "threw"}
                     /\ UNCHANGED leadNotifs
             ELSE /\ notifInsert' = "skipped" \/ (admins = Undefined /\ notifInsert' = "threw")
                  /\ UNCHANGED leadNotifs
    /\ UNCHANGED <<profiles, logins, clientRows, leadRows, nextLeadId,
                   addClientId, newLead, leadClientData, addResult, leadCalls,
                   delPc, delClientId, delClient, rpcCalls, delResult, deleteCalls>>

\* return newLead
AddLeadReturn ==
    /\ LeadFrame
    /\ addPc = "return"
    /\ addPc' = "done"
    /\ addResult' = AfterNotificationStep(newLead[1])
    /\ UNCHANGED <<profiles, logins, clientRows, leadRows, leadNotifs, nextLeadId,
                   addClientId, newLead, leadClientData, adminUsers, notifInsert, leadCalls,
                   delPc, delClientId, delClient, rpcCalls, delResult, deleteCalls>>

\* A call that passes the client's own id.
UserIdToDeleteIsClientId(client, clientId) == clientId

\* The argument deleteClient passes to the procedure.
UserIdToDelete(client, clientId) == client.user_id

\* The procedure delete_user_by_id_and_data: it removes the user's account and
\* profile and the user's data (clients, their leads, the notifications).
DeleteUserByIdAndData(userId) ==
    LET gone == {r.id : r \in {q \in clientRows : q.user_id = userId}}
    IN /\ logins' = logins \ {userId}
       /\ profiles' = {r \in profiles : r.id # userId}
       /\ clientRows' = {r \in clientRows : r.user_id # userId}
       /\ leadRows' = {r \in leadRows : r.client_id \notin gone}
       /\ leadNotifs' = {r \in leadNotifs : r.user_id # userId /\ r.client_id \notin gone}

\* deleteClient is called.
DeleteClientCall ==
    /\ LeadFrame
    /\ delPc \in {"idle", "done"}
    /\ deleteCalls < MaxDeleteCalls
    /\ deleteCalls' = deleteCalls + 1
    /\ \E clientId \in LeadClientIds : delClientId' = clientId
    /\ delPc' = "find"
    /\ delClient' = Undefined
    /\ rpcCalls' = <<>>
    /\ delResult' = Undefined
    /\ UNCHANGED <<profiles, logins, clientRows, leadRows, leadNotifs, nextLeadId,
                   addPc, addClientId, newLead, leadClientData, adminUsers, notifInsert,
                   addResult, leadCalls>>

\* select('user_id').eq('id', clientId).single(): the row, or findError (no
\* such row, or the backend fails) and deleteClient throws.
DeleteClientFind ==
    /\ LeadFrame
    /\ delPc = "find"
    /\ \/ /\ SelectSingleClient(delClientId) # Undefined
          /\ delClient' = Some([user_id |-> SelectSingleClient(delClientId)[1].user_id])
          /\ delPc' = "rpc"
          /\ UNCHANGED delResult
       \/ /\ delResult' = <<"error", "find">>
          /\ delPc' = "done"
          /\ UNCHANGED delClient
    /\ UNCHANGED <<profiles, logins, clientRows, leadRows, leadNotifs, nextLeadId,
                   addPc, addClientId, newLead, leadClientData, adminUsers, notifInsert,
                   addResult, leadCalls, delClientId, rpcCalls, deleteCalls>>

\* supabase.rpc('delete_user_by_id_and_data', ...): done, or an error and
\* deleteClient throws.
DeleteClientRpc ==
    /\ LeadFrame
    /\ delPc = "rpc"
    /\ delPc' = "done"
    /\ rpcCalls' = Append(rpcCalls, UserIdToDelete(delClient[1], delClientId))
    /\ \/ /\ DeleteUserByIdAndData(UserIdToDelete(delClient[1], delClientId))
          /\ delResult' = <<"ok">>
       \/ /\ delResult' = <<"error", "rpc">>
          /\ UNCHANGED <<profiles, logins, clientRows, leadRows, leadNotifs>>
    /\ UNCHANGED <<nextLeadId, addPc, addClientId, newLead, leadClientData, adminUsers,
                   notifInsert, addResult, leadCalls, delClientId, delClient, deleteCalls>>

\* No call is running, nothing is stored.
LeadRest ==
    /\ profiles = {}
    /\ logins = {}
    /\ clientRows = {}
    /\ leadRows = {}
    /\ leadNotifs = {}
    /\ nextLeadId = 1
    /\ addPc = "idle"
    /\ addClientId = ""
    /\ newLead = <<>>
    /\ leadClientData = <<>>
    /\ adminUsers = <<>>
    /\ notifInsert = "none"
    /\ addResult = <<>>
    /\ leadCalls = 0
    /\ delPc = "idle"
    /\ delClientId = ""
    /\ delClient = <<>>
    /\ rpcCalls = <<>>
    /\ delResult = <<>>
    /\ deleteCalls = 0

\* Two clients, each with its user, and any set of admin users.
LeadInit ==
    /\ \E admins \in SUBSET AdminIds :
          /\ profiles = {[id |-> UserOf(c), role |-> "client"] : c \in LeadClientIds}
                        \cup {[id |-> a, role |-> "admin"] : a \in admins}
          /\ logins = {UserOf(c) : c \in LeadClientIds} \cup admins
    /\ clientRows = {[id |-> c, user_id |-> UserOf(c), name |-> NameOf(c)] : c \in LeadClientIds}
    /\ leadRows = {}
    /\ leadNotifs = {}
    /\ nextLeadId = 1
    /\ addPc = "idle"
    /\ addClientId = ""
    /\ newLead = Undefined
    /\ leadClientData = Undefined
    /\ adminUsers = Undefined
    /\ notifInsert = "none"
    /\ addResult = Undefined
    /\ leadCalls = 0
    /\ delPc = "idle"
    /\ delClientId = ""
    /\ delClient = Undefined
    /\ rpcCalls = <<>>
    /\ delResult = Undefined
    /\ deleteCalls = 0

LeadNext ==
    \/ AddLeadCall
    \/ AddLeadInsert
    \/ AddLeadReadClient
    \/ AddLeadNotify
    \/ AddLeadReturn
    \/ DeleteClientCall
    \/ DeleteClientFind
    \/ DeleteClientRpc

(***************************************************************************)
(* The auth holder: AuthProvider (getInitialSession, onAuthStateChange,    *)
(* login, fetchAndSetUserProfile, logout)                                  *)
(***************************************************************************)
AuthUserId == "u1"
ProfileStatuses == {"active", "suspended"}

\* The calls of fetchAndSetUserProfile that can run at once: the one
\* getInitialSession awaits, the one of the listener, the one login awaits.
Fetchers == {"initial", "listener", "login"}

SuspendedMessage == "This account has been suspended."

\* A test that lets every profile through.
IsSuspendedNever(profile) == FALSE

\* profile.status === 'suspended'
IsSuspended(profile) == profile = "suspended"

\* fetchAndSetUserProfile is called.
FetchStart(f) ==
    /\ fetchPc' = [fetchPc EXCEPT ![f] = "select"]
    /\ fetchProfile' = [fetchProfile EXCEPT ![f] = Undefined]
    /\ fetchOutcome' = [fetchOutcome EXCEPT ![f] = "none"]
    /\ fetchQueries' = [fetchQueries EXCEPT ![f] = 0]

\* getInitialSession up to the call of fetchAndSetUserProfile.
GetInitialSession ==
    /\ AuthFrame
    /\ initPc = "start"
    /\ \/ /\ initPc' = "done"
          /\ isLoading' = FALSE
          /\ UNCHANGED <<session, fetchPc, fetchProfile, fetchOutcome, fetchQueries>>
       \/ /\ authSession
          /\ session' = Some(AuthUserId)
          /\ initPc' = "fetch"
          /\ FetchStart("initial")
          /\ UNCHANGED isLoading
       \/ /\ ~authSession
          /\ session' = Undefined
          /\ initPc' = "done"
          /\ isLoading' = FALSE
          /\ UNCHANGED <<fetchPc, fetchProfile, fetchOutcome, fetchQueries>>
    /\ UNCHANGED <<profileRow, authSession, authEvents, user, loginPc, loginResult,
                   authLogins, statusChanges>>

\* getInitialSession after the fetch: setIsLoading(false), unless the fetch
\* threw.
InitialSessionDone ==
    /\ AuthFrame
    /\ initPc = "fetch"
    /\ fetchPc["initial"] = "idle"
    /\ initPc' = "done"
    /\ isLoading' = (IF fetchOutcome["initial"] = "suspended" THEN isLoading ELSE FALSE)
    /\ UNCHANGED <<profileRow, authSession, authEvents, session, user, loginPc, loginResult,
                   fetchPc, fetchProfile, fetchOutcome, fetchQueries, authLogins, statusChanges>>

\* The onAuthStateChange listener handles an event.
AuthStateChange ==
    /\ AuthFrame
    /\ authEvents # <<>>
    /\ fetchPc["listener"] = "idle"
    /\ authEvents' = Tail(authEvents)
    /\ session' = Head(authEvents)
    /\ IF Head(authEvents) # Undefined
       THEN FetchStart("listener") /\ UNCHANGED user
       ELSE user' = Undefined /\ UNCHANGED <<fetchPc, fetchProfile, fetchOutcome, fetchQueries>>
    /\ UNCHANGED <<profileRow, authSession, isLoading, initPc, loginPc, loginResult,
                   authLogins, statusChanges>>

\* login is called.
LoginCall ==
    /\ AuthFrame
    /\ loginPc \in {"idle", "done"}
    /\ authLogins < MaxAuthLogins
    /\ authLogins' = authLogins + 1
    /\ loginPc' = "signIn"
    /\ loginResult' = Undefined
    /\ UNCHANGED <<profileRow, authSession, authEvents, session, user, isLoading, initPc,
                   fetchPc, fetchProfile, fetchOutcome, fetchQueries, statusChanges>>

\* signInWithPassword answers: a session, of which the listener is told, or
\* an error that login resolves with.
LoginSignIn ==
    /\ AuthFrame
    /\ loginPc = "signIn"
    /\ \/ /\ authSession' = TRUE
          /\ authEvents' = Append(authEvents, Some(AuthUserId))
          /\ loginPc' = "fetch"
          /\ FetchStart("login")
          /\ UNCHANGED loginResult
       \/ /\ loginPc' = "done"
          /\ loginResult' = <<"Invalid login credentials">>
          /\ UNCHANGED <<authSession, authEvents, fetchPc, fetchProfile, fetchOutcome, fetchQueries>>
    /\ UNCHANGED <<profileRow, session, user, isLoading, initPc, authLogins, statusChanges>>

\* login after the fetch: the error the fetch threw, or null.
LoginReturn ==
    /\ AuthFrame
    /\ loginPc = "fetch"
    /\ fetchPc["login"] = "idle"
    /\ loginPc' = "done"
    /\ loginResult' = (IF fetchOutcome["login"] = "suspended"
                       THEN <<SuspendedMessage>> ELSE <<"null">>)
    /\ UNCHANGED <<profileRow, authSession, authEvents, session, user, isLoading, initPc,
                   fetchPc, fetchProfile, fetchOutcome, fetchQueries, authLogins, statusChanges>>

\* processProfile up to its first await: a suspended profile starts logout,
\* any other one is set as the user.
ProcessProfile(f, profile) ==
    IF IsSuspended(profile)
    THEN /\ fetchPc' = [fetchPc EXCEPT ![f] = "logoutSuspended"]
         /\ UNCHANGED <<user, fetchOutcome>>
    ELSE /\ user' = Some([id |-> AuthUserId, status |-> profile])
         /\ fetchPc' = [fetchPc EXCEPT ![f] = "idle"]
         /\ fetchOutcome' = [fetchOutcome EXCEPT ![f] = "set"]

\* A fetch that queries again whenever it finds no profile.
NextOnMissingRetrying(pc) == "retry"

\* Where a fetch goes when a select finds no profile: the first time to the
\* delay and the retry, the second time to logout.
NextOnMissing(pc) == IF pc = "select" THEN "retry" ELSE "logoutMissing"

\* A select of the profile answers: an error, the profile, or none.
FetchAnswer(f) ==
    /\ fetchQueries' = [fetchQueries EXCEPT ![f] = fetchQueries[f] + 1]
    /\ \/ /\ fetchPc' = [fetchPc EXCEPT ![f] = "idle"]
          /\ fetchOutcome' = [fetchOutcome EXCEPT ![f] = "error"]
          /\ UNCHANGED <<user, fetchProfile>>
       \/ /\ profileRow # Undefined
          /\ fetchProfile' = [fetchProfile EXCEPT ![f] = profileRow]
          /\ ProcessProfile(f, profileRow[1])
       \/ /\ profileRow = Undefined
          /\ fetchPc' = [fetchPc EXCEPT ![f] = NextOnMissing(fetchPc[f])]
          /\ UNCHANGED <<user, fetchProfile, fetchOutcome>>
    /\ UNCHANGED <<profileRow, authSession, authEvents, session, isLoading, initPc, loginPc,
                   loginResult, authLogins, statusChanges>>

\* The first select of the profile.
FetchSelect(f) ==
    /\ AuthFrame
    /\ fetchPc[f] = "select"
    /\ FetchAnswer(f)

\* The select after the delay; when it too finds no profile, logout is called.
FetchRetry(f) ==
    /\ AuthFrame
    /\ fetchPc[f] = "retry"
    /\ FetchAnswer(f)

\* logout: supabase.auth.signOut() ends the session and tells the listener;
\* its result is not looked at.
LogoutSignOut(f) ==
    /\ AuthFrame
    /\ fetchPc[f] \in {"logoutSuspended", "logoutMissing"}
    /\ authSession' = FALSE
    /\ authEvents' = Append(authEvents, Undefined)
    /\ fetchPc' = [fetchPc EXCEPT ![f] = IF fetchPc[f] = "logoutSuspended"
                                         THEN "clearSuspended" ELSE "clearMissing"]
    /\ UNCHANGED <<profileRow, session, user, isLoading, initPc, loginPc, loginResult,
                   fetchProfile, fetchOutcome, fetchQueries, authLogins, statusChanges>>

\* logout after signOut: setUser(null) and setSession(null); then
\* processProfile throws for a suspended profile.
LogoutClear(f) ==
    /\ AuthFrame
    /\ fetchPc[f] \in {"clearSuspended", "clearMissing"}
    /\ user' = Undefined
    /\ session' = Undefined
    /\ fetchPc' = [fetchPc EXCEPT ![f] = "idle"]
    /\ fetchOutcome' = [fetchOutcome EXCEPT ![f] = IF fetchPc[f] = "clearSuspended"
                                                   THEN "suspended" ELSE "missing"]
    /\ UNCHANGED <<profileRow, authSession, authEvents, isLoading, initPc, loginPc,
                   loginResult, fetchProfile, fetchQueries, authLogins, statusChanges>>

\* The profile row appears (the trigger that follows a sign-up).
ProfileCreated ==
    /\ AuthFrame
    /\ profileRow = Undefined
    /\ \E status \in ProfileStatuses : profileRow' = Some(status)
    /\ UNCHANGED <<authSession, authEvents, session, user, isLoading, initPc, loginPc,
                   loginResult, fetchPc, fetchProfile, fetchOutcome, fetchQueries, authLogins,
                   statusChanges>>

\* An admin suspends or reactivates the user.
AdminSetsStatus ==
    /\ AuthFrame
    /\ profileRow # Undefined
    /\ statusChanges < MaxStatusChanges
    /\ statusChanges' = statusChanges + 1
    /\ \E status \in ProfileStatuses \ {profileRow[1]} : profileRow' = Some(status)
    /\ UNCHANGED <<authSession, authEvents, session, user, isLoading, initPc, loginPc,
                   loginResult, fetchPc, fetchProfile, fetchOutcome, fetchQueries, authLogins>>

\* The provider is not mounted.
AuthRest ==
    /\ profileRow = <<>>
    /\ authSession = FALSE
    /\ authEvents = <<>>
    /\ session = <<>>
    /\ user = <<>>
    /\ isLoading = TRUE
    /\ initPc = "start"
    /\ loginPc = "idle"
    /\ loginResult = <<>>
    /\ fetchPc = [f \in Fetchers |-> "idle"]
    /\ fetchProfile = [f \in Fetchers |-> <<>>]
    /\ fetchOutcome = [f \in Fetchers |-> "none"]
    /\ fetchQueries = [f \in Fetchers |-> 0]
    /\ authLogins = 0
    /\ statusChanges = 0

\* The provider mounts: the auth service holds a session of the user or none,
\* the profile is active, suspended or not created yet.
AuthInit ==
    /\ profileRow \in {Undefined} \cup {Some(st) : st \in ProfileStatuses}
    /\ authSession \in BOOLEAN
    /\ authEvents = <<>>
    /\ session = Undefined
    /\ user = Undefined
    /\ isLoading = TRUE
    /\ initPc = "start"
    /\ loginPc = "idle"
    /\ loginResult = Undefined
    /\ fetchPc = [f \in Fetchers |-> "idle"]
    /\ fetchProfile = [f \in Fetchers |-> Undefined]
    /\ fetchOutcome = [f \in Fetchers |-> "none"]
    /\ fetchQueries = [f \in Fetchers |-> 0]
    /\ authLogins = 0
    /\ statusChanges = 0

AuthNext ==
    \/ GetInitialSession
    \/ InitialSessionDone
    \/ AuthStateChange
    \/ LoginCall
    \/ LoginSignIn
    \/ LoginReturn
    \/ \E f \in Fetchers : FetchSelect(f)
    \/ \E f \in Fetchers : FetchRetry(f)
    \/ \E f \in Fetchers : LogoutSignOut(f)
    \/ \E f \in Fetchers : LogoutClear(f)
    \/ ProfileCreated
    \/ AdminSetsStatus

(***************************************************************************)
(* Read operations: getClients, getUsers, getClientByUserId,               *)
(* getQuotesForLead                                                        *)
(***************************************************************************)
\* What the backend answers to a select: { data, error }.
Failed(message) == [error |-> Some(message), data |-> Undefined]
Data(rows) == [error |-> Undefined, data |-> Some(rows)]

\* How an operation ends.
Thrown(message) == <<"throw", message>>
Returned(value) == <<"return", value>>

BackendMessages == {"permission denied", "connection lost"}

\* A stored client row.
StoredClient ==
    [id |-> 1, user_id |-> "u1", name |-> "n1",
     services |-> ArrayOf(<<Service("s1", "seo"), MwsEntry(Some(100), Some(20))>>),
     quote_webhook_url |-> Undefined]

\* The answers to a select of clients, and to a select of dependent rows.
ClientAnswers == {Failed(m) : m \in BackendMessages} \cup {Data(<<>>), Data(<<StoredClient>>)}
RowAnswers == {Failed(m) : m \in BackendMessages} \cup {Data(<<>>), Data(<<"r1">>)}

\* leads || []
OrEmpty(answer) == IF answer.data = Undefined THEN <<>> ELSE answer.data[1]

\* The client with its leads and ad spends, as both operations build it.
WithLeadsAndSpends(client, leads, spends) ==
    [client |-> UnpackMwsSettings(client), leads |-> OrEmpty(leads), adSpends |-> OrEmpty(spends)]

\* getClients()
GetClientsResult(answers) ==
    IF answers.clients.error # Undefined
    THEN Thrown(answers.clients.error[1])
    ELSE Returned([i \in DOMAIN answers.clients.data[1] |->
                      WithLeadsAndSpends(answers.clients.data[1][i], answers.leads,
                                         answers.spends)])

\* getUsers()
GetUsersResult(answers) ==
    IF answers.rows.error # Undefined
    THEN Thrown(answers.rows.error[1])
    ELSE Returned(answers.rows.data[1])

\* getClientByUserId(userId)
GetClientByUserIdResult(answers) ==
    IF answers.clients.error # Undefined
    THEN Returned(Null)
    ELSE IF answers.clients.data = Undefined \/ Len(answers.clients.data[1]) = 0
    THEN Returned(Null)
    ELSE Returned(WithLeadsAndSpends(answers.clients.data[1][1], answers.leads,
                                     answers.spends))

\* getQuotesForLead(leadId)
GetQuotesForLeadResult(answers) ==
    IF answers.rows.error # Undefined
    THEN Returned(<<>>)
    ELSE Returned(answers.rows.data[1])

ReadOps == {"getClients", "getUsers", "getClientByUserId", "getQuotesForLead"}

\* An operation is called; the backend will answer its selects in some way.
ReadCall ==
    /\ ReadFrame
    /\ readResult # Undefined \/ readOp = ""
    /\ readOp' \in ReadOps
    /\ IF readOp' \in {"getClients", "getClientByUserId"}
       THEN readAnswers' \in [clients : ClientAnswers, leads : RowAnswers, spends : RowAnswers]
       ELSE readAnswers' \in [rows : RowAnswers]
    /\ readResult' = Undefined

ReadGetClients ==
    /\ ReadFrame
    /\ readOp = "getClients"
    /\ readResult = Undefined
    /\ readResult' = GetClientsResult(readAnswers)
    /\ UNCHANGED <<readOp, readAnswers>>

ReadGetUsers ==
    /\ ReadFrame
    /\ readOp = "getUsers"
    /\ readResult = Undefined
    /\ readResult' = GetUsersResult(readAnswers)
    /\ UNCHANGED <<readOp, readAnswers>>

ReadGetClientByUserId ==
    /\ ReadFrame
    /\ readOp = "getClientByUserId"
    /\ readResult = Undefined
    /\ readResult' = GetClientByUserIdResult(readAnswers)
    /\ UNCHANGED <<readOp, readAnswers>>

ReadGetQuotesForLead ==
    /\ ReadFrame
    /\ readOp = "getQuotesForLead"
    /\ readResult = Undefined
    /\ readResult' = GetQuotesForLeadResult(readAnswers)
    /\ UNCHANGED <<readOp, readAnswers>>

ReadRest ==
    /\ readOp = ""
    /\ readAnswers = <<>>
    /\ readResult = <<>>

ReadInit == ReadRest

ReadNext ==
    \/ ReadCall
    \/ ReadGetClients
    \/ ReadGetUsers
    \/ ReadGetClientByUserId
    \/ ReadGetQuotesForLead

(***************************************************************************)
(* Specifications                                                          *)
(***************************************************************************)
QuoteSpecInit ==
    QuoteInit /\ NotifRest /\ ClientRest /\ RevRest /\ PageRest /\ LeadRest /\ AuthRest
    /\ ReadRest
NotifSpecInit ==
    NotifInit /\ QuoteRest /\ ClientRest /\ RevRest /\ PageRest /\ LeadRest /\ AuthRest
    /\ ReadRest
ClientSpecInit ==
    ClientInit /\ QuoteRest /\ NotifRest /\ RevRest /\ PageRest /\ LeadRest /\ AuthRest
    /\ ReadRest
RevSpecInit ==
    RevInit /\ QuoteRest /\ NotifRest /\ ClientRest /\ PageRest /\ LeadRest /\ AuthRest
    /\ ReadRest
PageSpecInit ==
    PageInit /\ RevRest /\ QuoteRest /\ NotifRest /\ ClientRest /\ LeadRest /\ AuthRest
    /\ ReadRest
MonthSpecInit ==
    MonthInit /\ PageRestOfMonth /\ QuoteRest /\ NotifRest /\ ClientRest /\ LeadRest /\ AuthRest
    /\ ReadRest
LeadSpecInit ==
    LeadInit /\ QuoteRest /\ NotifRest /\ ClientRest /\ RevRest /\ PageRest /\ AuthRest
    /\ ReadRest
AuthSpecInit ==
    AuthInit /\ QuoteRest /\ NotifRest /\ ClientRest /\ RevRest /\ PageRest /\ LeadRest
    /\ ReadRest
ReadSpecInit ==
    ReadInit /\ QuoteRest /\ NotifRest /\ ClientRest /\ RevRest /\ PageRest /\ LeadRest
    /\ AuthRest

SpecQuote == QuoteSpecInit /\ [][QuoteNext]_vars
SpecNotif == NotifSpecInit /\ [][NotifNext]_vars
SpecClient == ClientSpecInit /\ [][ClientSeqNext]_vars
SpecClientRace == ClientSpecInit /\ [][ClientRaceNext]_vars
SpecRevenue == RevSpecInit /\ [][RevNext]_vars
SpecMonth == MonthSpecInit /\ [][MonthNext]_vars
SpecPage == PageSpecInit /\ [][PageNext]_vars
SpecLead == LeadSpecInit /\ [][LeadNext]_vars
SpecAuth == AuthSpecInit /\ [][AuthNext]_vars
SpecReads == ReadSpecInit /\ [][ReadNext]_vars

\* The provider with every backend call returning: getSession, the selects of
\* the profile and signOut answer, and a continuation that can run does run.
SpecAuthFair ==
    /\ SpecAuth
    /\ WF_vars(GetInitialSession)
    /\ WF_vars(InitialSessionDone)
    /\ \A f \in Fetchers :
          /\ WF_vars(FetchSelect(f))
          /\ WF_vars(FetchRetry(f))
          /\ WF_vars(LogoutSignOut(f))
          /\ WF_vars(LogoutClear(f))

(***************************************************************************)
(* Claims about quotes                                                     *)
(***************************************************************************)
\* The call failed because the webhook answered with a non-2xx status.
SendFailedOnHttpStatus ==
    /\ sendPc = "failed"
    /\ response # <<>>
    /\ ~ResponseOk(response[1])

\* C1: when sendQuoteByWebhook(q) fails on a non-2xx answer, the call has issued
\* no updateQuoteStatus, the stored status is the one from before the call
\* (no other actor having written it meanwhile), and the error thrown carries
\* the HTTP status code and the response body.
C1_HttpFailureLeavesStatus ==
    SendFailedOnHttpStatus =>
        /\ sendUpdates = 0
        /\ (otherWrites = 0 => quoteStatus = statusAtCall)
        /\ \E i \in DOMAIN sendError : sendError[i] = ToString(response[1].status)
        /\ \E i \in DOMAIN sendError : sendError[i] = response[1].text

\* C1 witness: a call that failed on a 404 with a body, no other actor writing.
C1_Witness ==
    /\ SendFailedOnHttpStatus
    /\ response[1].status = 404
    /\ response[1].text = "boom"
    /\ otherWrites = 0
    /\ statusAtCall = "draft"

\* C2: a status update that sendQuoteByWebhook completes after a 2xx answer turns
\* a quote that is not accepted into 'sent' and never turns a quote whose stored
\* status is 'accepted' into 'sent', whatever another actor's
\* updateQuoteStatus(q, 'accepted') interleaves with the send.
C2_AcceptedNeverOverwritten ==
    [][(sendUpdates' = sendUpdates + 1 /\ sendPc' = "done") =>
           IF quoteStatus = "accepted"
           THEN quoteStatus' = "accepted"
           ELSE quoteStatus' = "sent"]_vars

(***************************************************************************)
(* Claims about notifications                                              *)
(***************************************************************************)
\* The UTC clock minute an instant (in microseconds) lies in.
UTCMinuteOf(created_at) == created_at \div 60000000

\* Row r belongs to the batch of n: no lead linkage, n's title and message,
\* created in n's UTC clock minute.
InBatchOf(r, n) ==
    /\ r.lead_id = Null
    /\ r.title = n.title
    /\ r.message = n.message
    /\ UTCMinuteOf(r.created_at) = UTCMinuteOf(n.created_at)

\* C3: the delete statement of updateSentNotification and of
\* deleteSentNotification, applied to n, removes exactly the rows without lead
\* linkage that have n's title and message and were created in n's UTC clock
\* minute; every other row stays as it is.
C3_BatchDeleteExact ==
    [][deleteStmts' # deleteStmts =>
           notifications' = {r \in notifications : ~InBatchOf(r, lastDelete'[1])}]_vars

\* The (title, message, UTC minute) of a row.
BatchKeyOf(r) == <<r.title, r.message, UTCMinuteOf(r.created_at)>>

\* C4: getSentNotifications returns one entry for each distinct (title, message,
\* UTC minute of created_at) among the rows without lead linkage and with a
\* title, and entries only for such rows.
C4_OneEntryPerBatch ==
    [][sentList' # sentList =>
           LET eligible == {r \in notifications : r.lead_id = Null /\ r.title # Null}
           IN /\ sentList'[1] \subseteq eligible
              /\ {BatchKeyOf(r) : r \in sentList'[1]} = {BatchKeyOf(r) : r \in eligible}
              /\ Cardinality(sentList'[1]) = Cardinality({BatchKeyOf(r) : r \in eligible})]_vars

\* C5: when updateSentNotification has completed without error, the users that
\* hold a re-inserted row are the users whose rows the operation deleted,
\* whatever sendCustomNotification interleaves with its three statements.
C5_RecipientsAreDeletedUsers ==
    updPc = "done" => updInserted = updDeleted

(***************************************************************************)
(* Claims about clients                                                    *)
(***************************************************************************)
\* C6: every user_id is referenced by at most one row of the clients table,
\* also when two addClient calls for the same user interleave.
C6_OneClientPerUser ==
    \A u \in Users : Cardinality({c \in clients : c.user_id = u}) <= 1

\* The Client objects a read of client id returns now.
ReadsOf(id) ==
    {r \in GetClients \cup UNION {GetClientByUserId(u) : u \in Users} : r.id = id}

\* The Client object a caller has just been returned by updateClient(id, ...).
UpdateResultsOf(id) ==
    {cres[p][2] : p \in {q \in Procs : /\ cpc[q] = "done"
                                        /\ cres[q][1] = "ok"
                                        /\ cop[q][1].op = "updateClient"
                                        /\ cop[q][1].clientId = id}}

\* C7: once updateClient(id, {mws_fixed_fee: f, mws_profit_percentage: p}) has
\* completed, every read of the client (getClients, getClientByUserId, the
\* result of updateClient) reports f and p, and keeps doing so through later
\* updateClient calls that set only name, services or quote_webhook_url.
C7_SettingsRoundTrip ==
    \A c \in clients :
        settled[c.id] # Undefined =>
            \A r \in ReadsOf(c.id) \cup UpdateResultsOf(c.id) :
                /\ r.mws_fixed_fee = settled[c.id][1][1]
                /\ r.mws_profit_percentage = settled[c.id][1][2]

\* C7 witness: f = 100 and p = 20 were set together, and a later call that set
\* only services has completed and returned the client.
C7_Witness ==
    /\ settled[1] = Some(<<Some(100), Some(20)>>)
    /\ cpc[1] = "done"
    /\ cres[1][1] = "ok"
    /\ cop[1][1].op = "updateClient"
    /\ cop[1][1].clientId = 1
    /\ cop[1][1].updates.services = Some(<<Service("new_1", "s1")>>)

HasSentinel(services) == \E i \in DOMAIN services : services[i].id = "mws_settings"

\* C8: no Client object the facade returns (getClients, getClientByUserId,
\* addClient, updateClient) lists an entry with id 'mws_settings' among its
\* services, whatever the services column holds.
C8_SentinelNeverExposed ==
    /\ \A r \in GetClients \cup UNION {GetClientByUserId(u) : u \in Users} :
          ~HasSentinel(r.services)
    /\ \A p \in Procs :
          (cpc[p] = "done" /\ cres[p][1] = "ok") => ~HasSentinel(cres[p][2].services)

\* C8 witness: the stored array holds the pseudo-service, and updateClient has
\* returned the client after writing its services.
C8_Witness ==
    /\ \E c \in clients : c.id = 1 /\ FindMws(ServicesArray(c.services)) # <<>>
    /\ cpc[1] = "done"
    /\ cres[1][1] = "ok"
    /\ cop[1][1].op = "updateClient"
    /\ cop[1][1].updates.services # Undefined
    /\ Len(cres[1][2].services) > 0

(***************************************************************************)
(* Claims about the revenue calculation                                    *)
(***************************************************************************)
\* The sum of F over the indices in I.
RECURSIVE SumOver(_, _)
SumOver(I, f) ==
    IF I = {} THEN 0
    ELSE LET i == CHOOSE x \in I : TRUE IN f[i] + SumOver(I \ {i}, f)

\* The in-window Won leads and the in-window ad spends, as index sets.
WonInWindow(range) ==
    {i \in DOMAIN revClient.leads :
        /\ revClient.leads[i].status = "Vinto"
        /\ InRange(LeadDate(revClient.leads[i]), range)}
SpendsInWindow(range) ==
    {i \in DOMAIN revClient.adSpends : InRange(revClient.adSpends[i].date, range)}

\* Won revenue minus ad spend in the window, a missing value counting as 0.
ProfitIn(range) ==
    SumOver(WonInWindow(range),
            [i \in DOMAIN revClient.leads |->
                IF revClient.leads[i].value = Undefined THEN 0
                ELSE revClient.leads[i].value[1]])
    - SumOver(SpendsInWindow(range),
              [i \in DOMAIN revClient.adSpends |-> revClient.adSpends[i].amount])

\* fixedFee + (clientProfit * profitPercentage / 100 if clientProfit > 0, else
\* 0), in hundredths, a missing fee or percentage counting as 0.
CommissionIn(range) ==
    LET fee == IF revClient.mws_fixed_fee = Undefined THEN 0 ELSE revClient.mws_fixed_fee[1]
        pct == IF revClient.mws_profit_percentage = Undefined THEN 0
               ELSE revClient.mws_profit_percentage[1]
    IN 100 * fee + (IF ProfitIn(range) > 0 THEN ProfitIn(range) * pct ELSE 0)

\* fixedFee = 100, profitPercentage = 20, one Won lead of 1000 and an ad spend
\* of 200 in the window.
C9_Example ==
    /\ revClient.mws_fixed_fee = Some(100)
    /\ revClient.mws_profit_percentage = Some(20)
    /\ \E i \in DOMAIN revClient.leads :
          /\ WonInWindow(dateRange) = {i}
          /\ revClient.leads[i].value = Some(1000)
    /\ \E j \in DOMAIN revClient.adSpends :
          /\ SpendsInWindow(dateRange) = {j}
          /\ revClient.adSpends[j].amount = 200

\* C9: the computed MWS revenue is fixedFee + (clientProfit * profitPercentage
\* / 100 if clientProfit > 0, else 0), with clientProfit the in-window Won
\* value minus the in-window ad spend; leads of another status add nothing, a
\* missing fee, percentage or value counts as 0, and the example gives 260.
C9_RevenueFormula ==
    /\ revenueData.clientProfit = ProfitIn(dateRange)
    /\ revenueData.mwsRevenue100 = CommissionIn(dateRange)
    /\ C9_Example => revenueData.mwsRevenue100 = 26000

\* C9 witness: the example, with a lead that is not Won in the window as well.
C9_Witness ==
    /\ C9_Example
    /\ \E i \in DOMAIN revClient.leads :
          /\ revClient.leads[i].status = "Nuovo"
          /\ revClient.leads[i].value = Some(1000)
          /\ InRange(LeadDate(revClient.leads[i]), dateRange)

\* The splits of the selected window [s, e] into [s, m] and [m + 1, e].
Splits ==
    IF dateRange.start = Undefined \/ dateRange.end = Undefined THEN {}
    ELSE {<<[start |-> dateRange.start, end |-> Some(m)],
            [start |-> Some(m + 1), end |-> dateRange.end]>> :
              m \in {d \in Days : dateRange.start[1] <= d /\ d < dateRange.end[1]}}

\* The commission the calculator computes for a window.
CommissionFor(range) == RevenueData(revClient, range).mwsRevenue100

\* C10: for every split of the window W into disjoint W1 and W2 that cover it,
\* the commission for W1 plus the commission for W2 is the commission for W.
C10_Additive ==
    \A sp \in Splits :
        CommissionFor(sp[1]) + CommissionFor(sp[2]) = revenueData.mwsRevenue100

\* The client profit of two windows does not differ in sign.
SameSign(a, b) == (a >= 0 /\ b >= 0) \/ (a <= 0 /\ b <= 0)

\* C10 as amended: when the fixed fee is 0, the commissions of W1 and W2 add up
\* to the commission of W for every split in which the client profit of W1 and
\* that of W2 do not differ in sign.
C10_AdditiveWithoutFee ==
    \A sp \in Splits :
        (/\ OrZero(revClient.mws_fixed_fee) = 0
         /\ SameSign(RevenueData(revClient, sp[1]).clientProfit,
                     RevenueData(revClient, sp[2]).clientProfit))
            => CommissionFor(sp[1]) + CommissionFor(sp[2]) = revenueData.mwsRevenue100

\* C10 witness: no fixed fee, a percentage, and a split with a Won lead of 1000
\* in each part, so that each part has a commission of its own.
C10_Witness ==
    /\ OrZero(revClient.mws_fixed_fee) = 0
    /\ revClient.mws_profit_percentage = Some(20)
    /\ \E sp \in Splits :
          /\ CommissionFor(sp[1]) > 0
          /\ CommissionFor(sp[2]) > 0
          /\ CommissionFor(sp[1]) + CommissionFor(sp[2]) = revenueData.mwsRevenue100

(***************************************************************************)
(* Claims about the window of the selected month                           *)
(***************************************************************************)
\* The number (1 .. 12) of the calendar month of 2023 that holds an instant.
CalendarMonthOf(instant) ==
    CHOOSE m \in 1 .. 12 :
        /\ DaysBefore(m - 1) * TicksPerDay <= instant
        /\ instant < DaysBefore(m) * TicksPerDay

\* The number of the selected month.
SelectedMonthNumber ==
    CHOOSE m \in 1 .. 12 :
        selectedMonth = "2023-" \o (IF m < 10 THEN "0" ELSE "") \o ToString(m)

\* The date a lead is attributed to.
AttributedDate(l) == IF l.attribution = Undefined THEN l.created_at ELSE l.attribution[1]

\* C11: a lead is counted for the selected month exactly when the instant it is
\* attributed to (_revenue_attribution_date when present, created_at otherwise)
\* lies in that calendar month, and an ad spend exactly when its date does: the
\* revenue and the ad spend of the calculation are the sums over those.
C11_MonthWindowCoversMonth ==
    /\ revenueData.clientRevenue =
          SumOver({i \in DOMAIN revClient.leads :
                      /\ revClient.leads[i].status = "Vinto"
                      /\ CalendarMonthOf(AttributedDate(revClient.leads[i])) = SelectedMonthNumber},
                  [i \in DOMAIN revClient.leads |-> OrZero(revClient.leads[i].value)])
    /\ revenueData.totalAdSpend =
          SumOver({i \in DOMAIN revClient.adSpends :
                      CalendarMonthOf(revClient.adSpends[i].date) = SelectedMonthNumber},
                  [i \in DOMAIN revClient.adSpends |-> revClient.adSpends[i].amount])

(***************************************************************************)
(* Claims about payments                                                   *)
(***************************************************************************)
\* The status the amounts of a row call for.
StatusFor(paid_amount, revenue_amount) ==
    IF paid_amount >= revenue_amount THEN "paid"
    ELSE IF paid_amount > 0 THEN "partially_paid"
    ELSE "unpaid"

\* C12: every row a confirmed payment writes has status 'paid' if and only if
\* its paid_amount >= its revenue_amount, otherwise 'partially_paid' if and
\* only if its paid_amount > 0, otherwise 'unpaid'.
C12_PaymentStatusMatchesAmounts ==
    pendingPayment # Undefined =>
        pendingPayment[1].status
            = StatusFor(pendingPayment[1].paid_amount, pendingPayment[1].revenue_amount)

\* C12 witness: a payment of 100.00 on a total of 260.00 is on its way to the
\* table as 'partially_paid'.
C12_Witness ==
    /\ pendingPayment # Undefined
    /\ pendingPayment[1].revenue_amount = 26000
    /\ pendingPayment[1].paid_amount = 10000
    /\ pendingPayment[1].status = "partially_paid"

\* The amount a text of the amount field stands for, in hundredths.
EnteredAmount(text) == ParseFloat(text)

\* C13: with existing paid amount E <= total due T, a confirmation with
\* paid-in-full marked stores paid_amount = T and status 'paid', and one with
\* paid-in-full not marked and an entered amount a, 0 <= a <= T - E, stores
\* paid_amount = E + a (T = 260, E = 0, a = 100: paid_amount 100 and status
\* 'partially_paid').
C13_ConfirmStoresPayment ==
    (lastConfirm # Undefined
        /\ lastConfirm[1].seen.existingPaidAmount <= lastConfirm[1].seen.totalDue) =>
        LET seen == lastConfirm[1].seen
            issued == lastConfirm[1].issued
            a == EnteredAmount(seen.amount)
        IN /\ seen.isPaidInFull =>
                /\ issued # Undefined
                /\ issued[1].paid_amount = seen.totalDue
                /\ issued[1].status = "paid"
           /\ (/\ ~seen.isPaidInFull
               /\ a # NaN
               /\ 0 <= a[1]
               /\ a[1] <= seen.totalDue - seen.existingPaidAmount) =>
                /\ issued # Undefined
                /\ issued[1].paid_amount = seen.existingPaidAmount + a[1]
           /\ (~seen.isPaidInFull /\ seen.totalDue = 26000 /\ seen.existingPaidAmount = 0
                  /\ a = Some(10000)) =>
                /\ issued # Undefined
                /\ issued[1].paid_amount = 10000
                /\ issued[1].status = "partially_paid"

\* C14: when the existing paid amount does not exceed the total due, a
\* confirmed payment stores no paid_amount above the total due, and an entered
\* amount above the remaining due (paid-in-full not marked), a negative amount
\* or a text that is no number is rejected with an error message and without
\* an upsert.
C14_NoOverpayment ==
    (lastConfirm # Undefined
        /\ lastConfirm[1].seen.existingPaidAmount <= lastConfirm[1].seen.totalDue) =>
        LET seen == lastConfirm[1].seen
            issued == lastConfirm[1].issued
            a == EnteredAmount(seen.amount)
        IN /\ issued # Undefined => issued[1].paid_amount <= seen.totalDue
           /\ (\/ a = NaN
               \/ a[1] < 0
               \/ (~seen.isPaidInFull /\ a[1] > seen.totalDue - seen.existingPaidAmount)) =>
                /\ issued = Undefined
                /\ pendingPayment = Undefined
                /\ modalError # ""

\* C14 witness: 100.00 of 260.00 are paid, 300.00 is entered and rejected as an
\* overpayment.
C14_Witness ==
    /\ lastConfirm # Undefined
    /\ lastConfirm[1].seen.totalDue = 26000
    /\ lastConfirm[1].seen.existingPaidAmount = 10000
    /\ ~lastConfirm[1].seen.isPaidInFull
    /\ lastConfirm[1].seen.amount = "300.00"
    /\ lastConfirm[1].issued = Undefined
    /\ modalError = "error_overpayment"

\* The rows of the table for a client and a month.
RowsFor(client_id, month) ==
    {i \in DOMAIN revenueTable :
        revenueTable[i].client_id = client_id /\ revenueTable[i].month = month}

\* The first day of a month "YYYY-MM".
FirstDayOf(month) == month \o "-01"

\* An upsert has been applied in this step.
UpsertApplied == fetchPending' = fetchPending + 1

\* C15: the table holds at most one row per (client_id, month); the month a
\* revenue save or a payment writes is the first day of the selected month; and
\* an upsert of data the table already holds for its key leaves the table as it
\* is, with exactly one row for that key.
C15_OneRowPerClientAndMonth ==
    /\ [](\A i \in DOMAIN revenueTable :
             RowsFor(revenueTable[i].client_id, revenueTable[i].month) = {i})
    /\ [][(pendingSave' # pendingSave /\ pendingSave' # Undefined)
             => pendingSave'[1].month = FirstDayOf(selectedMonth)]_vars
    /\ [][(pendingPayment' # pendingPayment /\ pendingPayment' # Undefined)
             => pendingPayment'[1].month = FirstDayOf(selectedMonth)]_vars
    /\ [][\A row \in {pendingSave, pendingPayment} \ {Undefined} :
             (/\ UpsertApplied
              /\ \/ (pendingSave' = Undefined /\ row = pendingSave)
                 \/ (pendingPayment' = Undefined /\ row = pendingPayment)
              /\ \E i \in DOMAIN revenueTable : revenueTable[i] = row[1])
                => /\ revenueTable' = revenueTable
                   /\ Cardinality(RowsFor(row[1].client_id, row[1].month)) = 1]_vars

\* C15 witness: two upserts for February have been applied since the page last
\* fetched, and the table holds the row of January and one row for February.
C15_Witness ==
    /\ fetchPending = 2
    /\ Len(revenueTable) = 2
    /\ Cardinality(RowsFor(PageClientId, "2023-02-01")) = 1

\* The rows among revenues for the client and a month "YYYY-MM".
StoredRowsIn(revenues, month) ==
    {revenues[i] : i \in {j \in DOMAIN revenues :
        /\ revenues[j].client_id = PageClientId
        /\ revenues[j].month = FirstDayOf(month)}}

\* The stored revenue differs from the one computed for the client in that
\* month by more than 0.01, or no row is stored and the computed revenue is
\* positive.
DiffersFromComputed(revenues, client, month) ==
    LET computed == RevenueData(client, DateRangeOf(month)).mwsRevenue100
        rows == StoredRowsIn(revenues, month)
    IN IF rows = {}
       THEN computed > 0
       ELSE \E r \in rows :
               r.revenue_amount - computed > 1 \/ computed - r.revenue_amount > 1

StoredRows == StoredRowsIn(mwsRevenues, selectedMonth)

StoredDiffersFromComputed == DiffersFromComputed(mwsRevenues, allClients[1], selectedMonth)

\* The page takes a client and month for pending exactly when the stored and
\* the computed revenue differ in that way, and a save is issued only then.
PendingIffDiffers ==
    /\ [](allClients # <<>> => (HasPendingChanges <=> StoredDiffersFromComputed))
    /\ [][(pendingSave' # pendingSave /\ pendingSave' # Undefined)
             => StoredDiffersFromComputed]_vars

\* This step is the first fetch to complete after a save was applied, no
\* payment applied in between, the month of the save still selected.
RefetchAfterSave ==
    /\ saveSeen # Undefined
    /\ saveSeen[1].applied
    /\ saveSeen' = Undefined
    /\ fetchPending' = fetchPending - 1
    /\ selectedMonth' = saveSeen[1].month

LeadTables == <<profiles, logins, clientRows, leadRows, leadNotifs>>

\* C17: a successful deleteClient has called the procedure once, for the user
\* of that client, and no login or profile of that user remains; a deleteClient
\* whose lookup fails calls no procedure and deletes nothing.
C17_DeleteClientRemovesUser ==
    /\ [](Len(rpcCalls) <= 1)
    /\ []((delPc = "done" /\ delResult = <<"ok">>) =>
            /\ rpcCalls = <<UserOf(delClientId)>>
            /\ UserOf(delClientId) \notin logins
            /\ \A r \in profiles : r.id # UserOf(delClientId))
    /\ [](delResult = <<"error", "find">> => rpcCalls = <<>>)
    /\ [][(delPc = "find" /\ delPc' # "find" /\ delResult' = <<"error", "find">>)
             => UNCHANGED LeadTables]_vars

\* C17 witness: deleteClient of the first client has succeeded; the other
\* client's user is still there.
C17_Witness ==
    /\ delPc = "done"
    /\ delResult = <<"ok">>
    /\ delClientId = "c1"
    /\ "u1" \notin logins
    /\ "u2" \in logins

\* The notification rows linked to a lead, in a table.
RowsAbout(table, lead) == {r \in table : r.lead_id = lead.id}

\* C18: when addLead returns the lead for a client that exists, both lookups
\* having given data and the notification insert not having failed, the table
\* holds, linked to the lead and the client, exactly one row for the client's
\* user and exactly one row for each admin, whatever the set of admins.
C18_OneNotificationPerRecipient ==
    [][(/\ addPc = "return"
        /\ addPc' = "done"
        /\ leadClientData # Undefined
        /\ adminUsers # Undefined
        /\ notifInsert \notin {"error", "threw"}
        /\ \E c \in clientRows : c.id = addClientId)
       => LET rows == RowsAbout(leadNotifs', newLead[1])
              admins == {r.id : r \in {q \in profiles : q.role = "admin"}}
          IN /\ \A r \in rows : r.client_id = addClientId
             /\ Cardinality({r \in rows : r.user_id = UserOf(addClientId)}) = 1
             /\ \A a \in admins : Cardinality({r \in rows : r.user_id = a}) = 1
             /\ Cardinality(rows) = 1 + Cardinality(admins)]_vars

\* C19: once the lead is inserted, addLead gives its caller that lead and no
\* error, whatever the notification step did, and that step removes no lead;
\* when the lead insert fails, addLead throws and creates no notification.
C19_NotificationFailuresSwallowed ==
    /\ []((addPc = "done" /\ newLead # Undefined) => addResult = <<"ok", newLead[1]>>)
    /\ [](addPc \in {"readClient", "readAdmins", "return"} => addResult = Undefined)
    /\ [][(addPc \in {"readClient", "readAdmins", "return"} /\ addPc' # addPc)
             => leadRows \subseteq leadRows']_vars
    /\ [](addResult = <<"error">> => (newLead = Undefined /\ notifInsert = "none"))
    /\ [][(addPc = "insert" /\ addResult' = <<"error">>)
             => (leadNotifs' = leadNotifs /\ leadRows' = leadRows)]_vars

\* C19 witness: the notification step threw after the lead was inserted, and
\* the caller has the lead.
C19_Witness ==
    /\ addPc = "done"
    /\ notifInsert = "threw"
    /\ newLead # Undefined
    /\ addResult = <<"ok", newLead[1]>>
    /\ newLead[1] \in leadRows

(***************************************************************************)
(* Claims about the auth holder                                            *)
(***************************************************************************)
\* Nothing is running: no fetch, no event to handle, no call in progress.
AuthAtRest ==
    /\ \A f \in Fetchers : fetchPc[f] = "idle"
    /\ authEvents = <<>>
    /\ initPc = "done"
    /\ loginPc \in {"idle", "done"}

\* C20: a suspended profile is never set as the user; a fetch that reads one
\* sets no user, signs out and ends with user and session null; a login that
\* awaited such a fetch resolves with the suspension error; and at rest, the
\* status not having changed meanwhile, no user is set while the profile is
\* suspended, and no session either when every fetch got an answer.
C20_SuspendedProfileForcesLogout ==
    /\ [](user # Undefined => user[1].status # "suspended")
    /\ [][\A f \in Fetchers :
            (fetchProfile'[f] # fetchProfile[f] /\ fetchProfile'[f] = Some("suspended"))
                => (fetchPc'[f] = "logoutSuspended" /\ user' = user)]_vars
    /\ [][\A f \in Fetchers :
            (fetchPc[f] = "logoutSuspended" /\ fetchPc'[f] # "logoutSuspended")
                => ~authSession']_vars
    /\ [][\A f \in Fetchers :
            (fetchProfile[f] = Some("suspended") /\ fetchPc[f] # "idle" /\ fetchPc'[f] = "idle")
                => (user' = Undefined /\ session' = Undefined)]_vars
    /\ [][(loginPc = "fetch" /\ loginPc' = "done" /\ fetchProfile["login"] = Some("suspended"))
             => loginResult' = <<"This account has been suspended.">>]_vars
    /\ []((AuthAtRest /\ statusChanges = 0 /\ profileRow = Some("suspended")) =>
            /\ user = Undefined
            /\ (\A f \in Fetchers : fetchOutcome[f] # "error") => session = Undefined)

\* C20 witness: a login of a suspended user has resolved with the error, the
\* listener's fetch has read the suspended profile too, and all is at rest with
\* user and session null.
C20_Witness ==
    /\ AuthAtRest
    /\ loginPc = "done"
    /\ loginResult = <<SuspendedMessage>>
    /\ fetchProfile["login"] = Some("suspended")
    /\ fetchProfile["listener"] = Some("suspended")
    /\ user = Undefined
    /\ session = Undefined
    /\ ~authSession

\* A select of the profile by call f is answered in this step.
ProfileQueried(f) == fetchQueries'[f] = fetchQueries[f] + 1

\* C21: a fetch queries the profile at most twice, the second time only after
\* the first query found no row, and it does not end after one query that
\* found no row; when the second query finds no row either it logs out, ending
\* with user and session null; and a query that returns a profile that is not
\* suspended sets the user from that profile.
C21_AtMostOneRetry ==
    /\ [](\A f \in Fetchers : fetchQueries[f] <= 2)
    /\ [][\A f \in Fetchers :
            (ProfileQueried(f) /\ fetchQueries[f] = 1)
                => (fetchProfile[f] = Undefined /\ fetchOutcome[f] = "none")]_vars
    /\ [][\A f \in Fetchers :
            (ProfileQueried(f) /\ fetchQueries[f] = 0 /\ profileRow = Undefined
                /\ fetchOutcome'[f] # "error")
                => (fetchPc'[f] # "idle" /\ user' = user /\ session' = session
                    /\ authSession' = authSession)]_vars
    /\ [](\A f \in Fetchers :
            (fetchPc[f] = "idle" /\ fetchOutcome[f] = "missing") => fetchQueries[f] = 2)
    /\ [][\A f \in Fetchers :
            (ProfileQueried(f) /\ fetchQueries[f] = 1 /\ profileRow = Undefined
                /\ fetchOutcome'[f] # "error")
                => fetchPc'[f] = "logoutMissing"]_vars
    /\ [][\A f \in Fetchers :
            (fetchPc[f] = "logoutMissing" /\ fetchPc'[f] # "logoutMissing")
                => ~authSession']_vars
    /\ [][\A f \in Fetchers :
            (fetchPc[f] # "idle" /\ fetchPc'[f] = "idle" /\ fetchOutcome'[f] = "missing")
                => (user' = Undefined /\ session' = Undefined)]_vars
    /\ [][\A f \in Fetchers : \A st \in ProfileStatuses \ {"suspended"} :
            (ProfileQueried(f) /\ profileRow = Some(st) /\ fetchOutcome'[f] # "error")
                => (user' = Some([id |-> AuthUserId, status |-> st])
                    /\ fetchProfile'[f] = Some(st))]_vars

\* C21 witness: the listener's fetch found no profile, then none again, and
\* has logged out; the login's fetch found the profile with its second query
\* and set the user.
C21_Witness ==
    /\ fetchPc["listener"] = "idle"
    /\ fetchOutcome["listener"] = "missing"
    /\ fetchQueries["listener"] = 2
    /\ fetchPc["login"] = "idle"
    /\ fetchOutcome["login"] = "set"
    /\ fetchQueries["login"] = 2
    /\ user = Some([id |-> AuthUserId, status |-> "active"])

(***************************************************************************)
(* Claims about the read operations                                        *)
(***************************************************************************)
\* The answers to the selects the call has issued: the first select, and the
\* selects of leads and ad spends when the first one returned a client.
IssuedAnswers ==
    IF readOp \in {"getClients", "getClientByUserId"}
    THEN {readAnswers.clients} \cup
         (IF readAnswers.clients.data # Undefined /\ Len(readAnswers.clients.data[1]) > 0
          THEN {readAnswers.leads, readAnswers.spends} ELSE {})
    ELSE {readAnswers.rows}

\* C22: an operation one of whose backend calls returned an error ends by
\* throwing an error with the message of such a backend error; it returns no
\* value.
C22_BackendErrorsAreThrown ==
    (readResult # Undefined /\ \E a \in IssuedAnswers : a.error # Undefined) =>
        /\ readResult[1] = "throw"
        /\ \E a \in IssuedAnswers : a.error = Some(readResult[2])

(***************************************************************************)
(* Claims about the preconditions of sendQuoteByWebhook                    *)
(***************************************************************************)
\* The errors thrown before the POST: the quote, the lead, or the client's
\* webhook URL could not be read.
PreconditionErrors ==
    { <<"quoteError.message">>,
      <<"Impossibile trovare il lead associato al preventivo.">>,
      <<"URL webhook non configurato per questo cliente.">> }

\* C23: a send that stops on a missing precondition has failed with that
\* error, has sent no POST and has written no status: the quote's status is
\* the one it had at the call unless someone else wrote it meanwhile. A POST
\* is sent only once the quote, the lead and the client's URL were read.
C23_MissingPreconditionSendsNothing ==
    /\ (sendPc \in {"called", "quote_read", "lead_read"}) =>
            (sendPosts = 0 /\ sendUpdates = 0 /\ sendError = <<>>)
    /\ (sendError \in PreconditionErrors) =>
            /\ sendPc \in {"failed", "idle"}
            /\ sendPosts = 0
            /\ sendUpdates = 0
            /\ response = <<>>
            /\ (otherWrites = 0 => quoteStatus = statusAtCall)
    /\ (sendPosts > 0) => (rawQuote # <<>> /\ sendError \notin PreconditionErrors)

\* C23 witness: a send of a draft quote has failed because the client has no
\* webhook URL, after the quote and the lead were read.
C23_Witness ==
    /\ sendPc = "failed"
    /\ sendError = <<"URL webhook non configurato per questo cliente.">>
    /\ rawQuote = <<"draft">>
    /\ quoteStatus = "draft"
    /\ sendPosts = 0

(***************************************************************************)
(* Claims about login's result                                             *)
(***************************************************************************)
\* C24: when login resolves after its profile fetch, a null error means the
\* user is set from the profile the fetch read, and a fetch that did not load
\* the profile (select error, no profile after the retry, suspended profile)
\* makes login resolve with an error.
C24_LoginErrorIffNoProfile ==
    [][(loginPc = "fetch" /\ loginPc' = "done") =>
          /\ (loginResult' = <<"null">>) =>
                 /\ fetchProfile["login"] # Undefined
                 /\ user' = Some([id |-> AuthUserId, status |-> fetchProfile["login"][1]])
          /\ (fetchOutcome["login"] \in {"error", "missing", "suspended"}) =>
                 (loginResult' # <<"null">>)]_vars

(***************************************************************************)
(* Claims about user and session                                           *)
(***************************************************************************)
\* C26: the user is non-null only while the session is non-null. It is stated
\* for the states in which the listener has handled every report of the auth
\* service, so that a session that was reported but not yet handled does not
\* count against it; after a logout or a reported null session the session
\* is null in such a state until a new one is reported.
C26_UserOnlyWithSession ==
    (user # Undefined /\ authEvents = <<>> /\ fetchPc["listener"] = "idle") =>
        session # Undefined

(***************************************************************************)
(* Claims about the initial session check                                  *)
(***************************************************************************)
\* C27: after the provider mounts, isLoading eventually becomes false, every
\* backend call of the initial session check returning.
C27_LoadingEnds == <>(isLoading = FALSE)

(***************************************************************************)
(* Claims about who writes revenue rows, and for which month               *)
(***************************************************************************)
\* The upserts of the page that are in flight.
IssuedUpserts ==
    (IF pendingSave = Undefined THEN {} ELSE {pendingSave[1]})
        \cup (IF pendingPayment = Undefined THEN {} ELSE {pendingPayment[1]})

\* The month column of the current calendar month's row.
CurrentMonthRow == currentMonth \o "-01"

C28_StoredStatusMatchesAmounts ==
    \A i \in DOMAIN revenueTable :
        LET row == revenueTable[i]
        IN (row.revenue_amount > 0) =>
           /\ (row.status = "paid") <=> (row.paid_amount >= row.revenue_amount)
           /\ (row.status = "unpaid") <=> (row.paid_amount = 0)
           /\ row.paid_amount <= row.revenue_amount

(***************************************************************************)
(* Claims about what a revenue save writes                                 *)
(***************************************************************************)
\* C29: the step in which the upsert of a revenue save is applied changes no
\* stored row's paid_amount or status: every row the table held before the
\* step has the same client, month, paid_amount and status after it.
C29_SaveKeepsPayment ==
    [][(pendingSave # Undefined /\ pendingSave' = Undefined) =>
          /\ Len(revenueTable') >= Len(revenueTable)
          /\ \A i \in DOMAIN revenueTable :
                /\ revenueTable'[i].client_id = revenueTable[i].client_id
                /\ revenueTable'[i].month = revenueTable[i].month
                /\ revenueTable'[i].paid_amount = revenueTable[i].paid_amount
                /\ revenueTable'[i].status = revenueTable[i].status]_vars

(***************************************************************************)
(* Claims about overlapping updateClient calls                             *)
(***************************************************************************)
\* The stored services array of client id.
StoredArrayOf(id) == ServicesArray((CHOOSE c \in clients : c.id = id).services)

\* Caller p has completed updateClient for client id with updates for which
\* Only holds.
CompletedUpdate(p, id, Only(_)) ==
    /\ cpc[p] = "done"
    /\ cres[p][1] = "ok"
    /\ cop[p][1].op = "updateClient"
    /\ cop[p][1].clientId = id
    /\ Only(cop[p][1].updates)

OnlyServices(updates) == updates.services # Undefined /\ ~MwsSettingsProvided(updates)
OnlySettings(updates) == updates.services = Undefined /\ MwsSettingsProvided(updates)

\* C30: when one caller has completed an updateClient that set only the
\* visible services and the other one that set only commission settings, for
\* the same client, the stored array holds both: the visible services the
\* first wrote and the settings the second set.
C30_ConcurrentUpdatesBothPresent ==
    \A p \in Procs, q \in Procs, c \in clients :
        (/\ p # q
         /\ CompletedUpdate(p, c.id, OnlyServices)
         /\ CompletedUpdate(q, c.id, OnlySettings)) =>
            LET stored == StoredArrayOf(c.id)
                found == FindMws(stored)
                updates == cop[q][1].updates
            IN /\ SelectSeq(stored, IsUserService) = SelectSeq(cloc[p][1], IsUserService)
               /\ found # <<>>
               /\ updates.mws_fixed_fee # Undefined =>
                      found[1].fee = updates.mws_fixed_fee
               /\ updates.mws_profit_percentage # Undefined =>
                      found[1].pct = updates.mws_profit_percentage

====
